---------------------------- MODULE Spec2Model ----------------------------
(***************************************************************************)
(* Model of the heuristic content extraction engine of ddd_api.py:         *)
(* FormParser (extract_forms, parse_form, _extract_question_text,          *)
(* _find_label), FormData (to_dict, from_dict) and Slide.get_forms.        *)
(*                                                                         *)
(* An HTML fragment is modelled by the tree BeautifulSoup builds from it:  *)
(* the sequence of its nodes in document order (pre-order), each node      *)
(* carrying its depth, its tag ("#text" for a text node), its text and     *)
(* its attributes.  An attribute is <<>> when absent and <<v>> when        *)
(* present with value v, which is how None and a string are told apart.    *)
(***************************************************************************)
EXTENDS Integers, Sequences, FiniteSets, TLC

VARIABLES
    content_html,     \* Slide.content_html, as the tree it parses to
    soup_fault,       \* TRUE when BeautifulSoup raises on the content inside extract_forms
    parse_fault,      \* the regions on which the tree library raises inside parse_form
    located,          \* outcome of the last FormParser.extract_forms call
    form_data,        \* outcome of the last FormParser.parse_form call / the FormData worked on
    question,         \* outcome of the last FormParser._extract_question_text call
    forms_cache,      \* Slide._forms
    get_forms_result, \* outcome of the last Slide.get_forms call
    submission,       \* the mapping last handed to FormData.from_dict / validate_form_data
    to_dict_result,   \* outcome of the last FormData.to_dict call
    potential_questions, \* outcome of Slide.find_potential_questions on content_html
    label_call,       \* the arguments and the outcome of the last FormParser._find_label call
    validation,       \* outcome of the last Form.validate_form_data call
    slides,           \* the Slide instances: content_html, the four caches, the extraction runs
    last_call,        \* the last accessor called on a Slide instance, and what it returned
    platform,         \* the DDDGermanPlatform client: jwt_token, _user_id
    request,          \* the _make_request call under way, or the outcome of the last one
    handler,          \* the Form handler: _previous_responses, _last_fetch_time, last call
    clock,            \* time.time(), in seconds
    progress          \* the content of the platform and the last get_user_progress result

\* the state of the accessors of Slide, of _find_label and of validate_form_data
later == <<potential_questions, label_call, validation, slides, last_call,
           platform, request, handler, clock, progress>>

\* the state of the client of the API and of the Form handler
remote == <<platform, request, handler, clock, progress>>

vars == <<content_html, soup_fault, parse_fault, located, form_data, question,
          forms_cache, get_forms_result, submission, to_dict_result,
          potential_questions, label_call, validation, slides, last_call,
          platform, request, handler, clock, progress>>

-----------------------------------------------------------------------------
(* Bounds of the model *)

\* longest fragment (number of nodes) handed to FormParser.extract_forms alone
MaxLocateNodes == 3
\* longest fragment (number of nodes) of a slide handed to Slide.get_forms
MaxSlideNodes == 4
\* longest fragment (number of nodes) of a slide some of whose forms fail to parse
MaxFaultNodes == 3
\* longest region (number of nodes) handed to FormParser.parse_form
MaxParseNodes == 3
\* number of controls in a region handed to _extract_question_text beyond its fixed frame
MaxQuestionNodes == 3
\* most fields of a FormData worked on by from_dict / to_dict
MaxFields == 2

-----------------------------------------------------------------------------
(* Python values *)

\* Python's None, and the outcome of a call that was not made yet
None == <<>>
Some(v) == <<v>>
NotCalled == [kind |-> "not-called"]
Returned(v) == [kind |-> "return", value |-> v]
Raised(e) == [kind |-> "raise", exc |-> e]

\* truthiness of an Optional[str]: neither None nor ""
Truthy(o) == o # None /\ o[1] # ""

\* dict.get(key, default) on an attribute
GetOr(o, default) == IF o = None THEN default ELSE o[1]

-----------------------------------------------------------------------------
(* Strings *)

UpperChars == "ABCDEFGHIJKLMNOPQRSTUVWXYZ"
LowerChars == "abcdefghijklmnopqrstuvwxyz"

CharAt(s, i) == SubSeq(s, i, i)

LowerChar(c) ==
    IF \E k \in 1..Len(UpperChars) : CharAt(UpperChars, k) = c
    THEN CharAt(LowerChars, CHOOSE k \in 1..Len(UpperChars) : CharAt(UpperChars, k) = c)
    ELSE c

RECURSIVE Lower(_)
\* str.lower()
Lower(s) == IF s = "" THEN "" ELSE LowerChar(CharAt(s, 1)) \o Lower(SubSeq(s, 2, Len(s)))

\* sub in s
Contains(s, sub) ==
    \E i \in 1..(Len(s) - Len(sub) + 1) : SubSeq(s, i, i + Len(sub) - 1) = sub

\* s.startswith(p)
StartsWith(s, p) == Len(s) >= Len(p) /\ SubSeq(s, 1, Len(p)) = p

IsSpace(c) == c \in {" ", "\n", "\t"}

RECURSIVE LStrip(_)
LStrip(s) == IF s # "" /\ IsSpace(CharAt(s, 1)) THEN LStrip(SubSeq(s, 2, Len(s))) ELSE s

RECURSIVE RStrip(_)
RStrip(s) == IF s # "" /\ IsSpace(CharAt(s, Len(s))) THEN RStrip(SubSeq(s, 1, Len(s) - 1)) ELSE s

\* str.strip()
Strip(s) == RStrip(LStrip(s))

RECURSIVE Tokens(_)
\* the values of a multi-valued attribute (class): s.split()
Tokens(s) ==
    LET t == LStrip(s) IN
    IF t = "" THEN <<>>
    ELSE LET cut == IF \E i \in 1..Len(t) : IsSpace(CharAt(t, i))
                    THEN CHOOSE i \in 1..Len(t) :
                             /\ IsSpace(CharAt(t, i))
                             /\ \A j \in 1..(i - 1) : ~IsSpace(CharAt(t, j))
                    ELSE Len(t) + 1
         IN  <<SubSeq(t, 1, cut - 1)>> \o Tokens(SubSeq(t, cut, Len(t)))

-----------------------------------------------------------------------------
(* The tree abstraction (bs4) *)

\* a node with no attribute
Blank ==
    [tag |-> "", d |-> 0, text |-> "",
     id |-> None, name |-> None, type |-> None, value |-> None, class |-> None,
     for |-> None, title |-> None, aria_label |-> None, placeholder |-> None,
     required |-> None, selected |-> None]

Elem(t) == [Blank EXCEPT !.tag = t]
Text(s) == [Blank EXCEPT !.tag = "#text", !.text = s]

\* the BeautifulSoup object itself, the parent of the top-level nodes
Root == 0

\* the last node of the subtree of i
End(doc, i) ==
    IF i = Root THEN Len(doc)
    ELSE IF \E k \in (i + 1)..Len(doc) : doc[k].d <= doc[i].d
         THEN (CHOOSE k \in (i + 1)..Len(doc) :
                   /\ doc[k].d <= doc[i].d
                   /\ \A j \in (i + 1)..(k - 1) : doc[j].d > doc[i].d) - 1
         ELSE Len(doc)

\* the nodes below i, in document order
Descendants(doc, i) == (i + 1)..End(doc, i)

\* Tag.parent
Parent(doc, i) ==
    IF doc[i].d = 0 THEN Root
    ELSE CHOOSE j \in 1..(i - 1) :
             /\ doc[j].d = doc[i].d - 1
             /\ \A k \in (j + 1)..(i - 1) : doc[k].d > doc[j].d

RECURSIVE Ancestors(_, _)
\* the ancestors of i, nearest first, the BeautifulSoup object left out
Ancestors(doc, i) ==
    IF i = Root \/ Parent(doc, i) = Root THEN <<>>
    ELSE <<Parent(doc, i)>> \o Ancestors(doc, Parent(doc, i))

\* the indices of a set of nodes in document order
RECURSIVE InOrder(_)
InOrder(S) ==
    IF S = {} THEN <<>>
    ELSE LET m == CHOOSE x \in S : \A y \in S : x <= y
         IN  <<m>> \o InOrder(S \ {m})

\* Tag.find_all(tags): the descendants of i with one of the tags, in document order
FindAll(doc, i, tags) == InOrder({j \in Descendants(doc, i) : doc[j].tag \in tags})

\* Tag.find(tags): the first of them, Root when there is none (None)
Find(doc, i, tags) ==
    LET hits == FindAll(doc, i, tags) IN IF hits = <<>> THEN Root ELSE hits[1]

\* Tag.find_parent(tags): the nearest ancestor with one of the tags, Root when none
FindParent(doc, i, tags) ==
    LET anc == SelectSeq(Ancestors(doc, i), LAMBDA j : doc[j].tag \in tags)
    IN  IF anc = <<>> THEN Root ELSE anc[1]

\* str(tag) parsed again: the subtree of i as a fragment of its own
Subtree(doc, i) ==
    IF i = Root THEN doc
    ELSE [k \in 1..(End(doc, i) - i + 1) |->
             [doc[i + k - 1] EXCEPT !.d = doc[i + k - 1].d - doc[i].d]]

RECURSIVE ConcatText(_, _)
ConcatText(doc, idx) ==
    IF idx = <<>> THEN ""
    ELSE Strip(doc[Head(idx)].text) \o ConcatText(doc, Tail(idx))

\* Tag.get_text(strip=True): the stripped strings below i, joined with ""
GetTextStrip(doc, i) == ConcatText(doc, FindAll(doc, i, {"#text"}))

\* class_=lambda c: c and P(c): the function is tried on every class value
ClassMatches(n, P(_)) ==
    /\ n.class # None
    /\ \/ \E k \in 1..Len(Tokens(n.class[1])) : P(Tokens(n.class[1])[k])
       \/ P(n.class[1])

-----------------------------------------------------------------------------
(* The fragments the model is run on *)

\* elements that hold no child (void elements and strings)
IsLeaf(n) == n.tag \in {"input", "#text"}

\* what html.parser leaves below an element: a textarea or an option holds
\* text only, a select holds options, an option sits in a select
MayHold(p, c) ==
    /\ ~IsLeaf(p)
    /\ p.tag \in {"textarea", "option"} => c.tag = "#text"
    /\ p.tag = "select" => c.tag = "option"
    /\ c.tag = "option" => p.tag = "select"

\* A fragment is drawn in a compact form first: the sequence of <<a, d>>, the
\* place a of each node's template in the alphabet Alpha and its depth d.

\* whether node n may follow c in document order: as a child of the last node,
\* or as a sibling of the last node or of one of its ancestors; two strings
\* are never neighbours (the parser joins them)
CanFollow(c, n, Alpha) ==
    IF c = <<>> THEN n[2] = 0 /\ Alpha[n[1]].tag # "option"
    ELSE LET last == c[Len(c)]
             above == {j \in 1..Len(c) : c[j][2] = n[2] - 1}
             p == IF above = {} THEN Root
                  ELSE CHOOSE j \in above : \A k \in above : k <= j IN
         /\ n[2] <= last[2] + 1
         /\ IF p = Root THEN Alpha[n[1]].tag # "option"
            ELSE MayHold(Alpha[c[p][1]], Alpha[n[1]])
         /\ ~(/\ Alpha[n[1]].tag = "#text"
              /\ Alpha[last[1]].tag = "#text"
              /\ n[2] = last[2])

RECURSIVE CompactOfLen(_, _)
\* the compact fragments of exactly n nodes over the alphabet Alpha
CompactOfLen(Alpha, n) ==
    IF n = 0 THEN {<<>>}
    ELSE {Append(q[1], q[2]) :
             q \in {r \in CompactOfLen(Alpha, n - 1) \X ((1..Len(Alpha)) \X (0..(n - 1))) :
                       CanFollow(r[1], r[2], Alpha)}}

\* the tree of a compact fragment
Expand(c, Alpha) == [k \in 1..Len(c) |-> [Alpha[c[k][1]] EXCEPT !.d = c[k][2]]]

\* the compact fragments of at most n nodes over the alphabet Alpha
CompactUpTo(Alpha, n) == UNION {CompactOfLen(Alpha, k) : k \in 0..n}

\* the fragments of at most n nodes over the alphabet Alpha
Fragments(Alpha, n) == {Expand(c, Alpha) : c \in CompactUpTo(Alpha, n)}

WithId(n, v) == [n EXCEPT !.id = Some(v)]
WithClass(n, v) == [n EXCEPT !.class = Some(v)]
WithName(n, v) == [n EXCEPT !.name = Some(v)]
WithType(n, v) == [n EXCEPT !.type = Some(v)]
WithValue(n, v) == [n EXCEPT !.value = Some(v)]
WithFor(n, v) == [n EXCEPT !.for = Some(v)]
\* a boolean attribute: present, with the empty value
WithRequired(n) == [n EXCEPT !.required = Some("")]

\* fragments for the form locator: forms with and without id (also an empty
\* id), plain and marker-classed divs, a control
LocateAlphabet ==
    << Elem("div"), WithClass(Elem("div"), "row Question-Box"),
       WithId(Elem("form"), "a"), WithId(Elem("form"), "b"),
       Elem("form"), WithId(Elem("form"), ""),
       WithName(Elem("input"), "x") >>

-----------------------------------------------------------------------------
(* FormParser.extract_forms *)

Controls == {"input", "textarea", "select"}

\* str(parent_div) if parent_div else str(form_element)
FormRegionRoot(doc, f) ==
    LET parent_div == FindParent(doc, f, {"div"})
    IN  IF parent_div # Root THEN parent_div ELSE f

Entry(doc, form_id, root) == [id |-> form_id, region |-> Subtree(doc, root)]

\* lambda c: c and ('form' in c.lower() or 'input' in c.lower() or 'question' in c.lower())
FormLikeClass(c) ==
    \/ Contains(Lower(c), "form")
    \/ Contains(Lower(c), "input")
    \/ Contains(Lower(c), "question")

\* div.find(['input', 'textarea', 'select'])
HasControl(doc, i) == Find(doc, i, Controls) # Root

\* first loop: every <form> with a truthy id
Tier1(doc) ==
    LET fs == SelectSeq(FindAll(doc, Root, {"form"}), LAMBDA f : Truthy(doc[f].id))
    IN  [k \in 1..Len(fs) |-> Entry(doc, doc[fs[k]].id[1], FormRegionRoot(doc, fs[k]))]

\* second loop: every <form>, numbered by enumerate
Tier2(doc) ==
    LET fs == FindAll(doc, Root, {"form"})
    IN  [k \in 1..Len(fs) |->
            Entry(doc, "form-" \o ToString(k), FormRegionRoot(doc, fs[k]))]

\* the entries of the divs of ds that hold a control, each numbered by its
\* place in ds (enumerate runs over ds, the test is inside the loop)
RECURSIVE DivEntries(_, _, _, _)
DivEntries(doc, ds, k, prefix) ==
    IF k > Len(ds) THEN <<>>
    ELSE (IF HasControl(doc, ds[k])
          THEN <<Entry(doc, prefix \o ToString(k), ds[k])>>
          ELSE <<>>) \o DivEntries(doc, ds, k + 1, prefix)

\* third loop: marker-classed divs
Tier3(doc) ==
    LET form_like_divs ==
            SelectSeq(FindAll(doc, Root, {"div"}),
                      LAMBDA j : ClassMatches(doc[j], FormLikeClass))
    IN  DivEntries(doc, form_like_divs, 1, "synthetic-form-")

\* fourth loop: any div
Tier4(doc) == DivEntries(doc, FindAll(doc, Root, {"div"}), 1, "div-form-")

\* a variant whose second loop is not guarded by "if not forms"
extract_forms_merging(doc) ==
    IF Tier1(doc) \o Tier2(doc) # <<>> THEN Tier1(doc) \o Tier2(doc)
    ELSE IF Tier3(doc) # <<>> THEN Tier3(doc)
    ELSE Tier4(doc)

\* a variant that stops after the first id-bearing form
extract_forms_first_only(doc) ==
    IF Tier1(doc) # <<>> THEN <<Tier1(doc)[1]>>
    ELSE IF Tier2(doc) # <<>> THEN Tier2(doc)
    ELSE IF Tier3(doc) # <<>> THEN Tier3(doc)
    ELSE Tier4(doc)

\* the list extract_forms returns when nothing raises
extract_forms(doc) ==
    IF Tier1(doc) # <<>> THEN Tier1(doc)
    ELSE IF Tier2(doc) # <<>> THEN Tier2(doc)
    ELSE IF Tier3(doc) # <<>> THEN Tier3(doc)
    ELSE Tier4(doc)

\* the call: any exception inside becomes FormParsingError
ExtractFormsOutcome(doc, fault) ==
    IF fault THEN Raised("FormParsingError") ELSE Returned(extract_forms(doc))

-----------------------------------------------------------------------------
(* FormParser._find_label *)

\* bs4's match of an attribute against a string given in an attrs dict: an
\* absent attribute matches only a falsy string
AttrIs(o, v) == IF o = None THEN v = "" ELSE o[1] = v

\* bs4's match of an attribute against an Optional[str] (None matches only an
\* absent attribute)
AttrIsOpt(o, v) == IF v = None THEN o = None ELSE AttrIs(o, v[1])

\* form_element.find('label', {'for': target}), Root when there is none
FindLabelFor(doc, el, target) ==
    LET hits == SelectSeq(FindAll(doc, el, {"label"}), LAMBDA j : AttrIs(doc[j].for, target))
    IN  IF hits = <<>> THEN Root ELSE hits[1]

\* Tag.find_next_sibling(): the next element with the same parent, Root when none
FindNextSibling(doc, i) ==
    LET sibs == {j \in (End(doc, i) + 1)..Len(doc) :
                    /\ doc[j].tag # "#text"
                    /\ doc[j].d = doc[i].d
                    /\ \A k \in (i + 1)..j : doc[k].d >= doc[i].d}
    IN  IF sibs = {} THEN Root ELSE CHOOSE j \in sibs : \A k \in sibs : j <= k

\* the text of the clone of parent_label after its first input with that name
\* and value is decomposed: an input holds no string, so the strings are those
\* of the label
ClonedLabelText(doc, parent_label, field_name, value_attr) ==
    GetTextStrip(doc, parent_label)

\* the body of the loop over inputs_with_value, for one input: <<text>> when
\* it returns, None when the loop goes on
OptionLabelAt(doc, el, i, field_name, value_attr) ==
    LET for_id == IF Truthy(doc[i].id) THEN FindLabelFor(doc, el, doc[i].id[1]) ELSE Root
        next_elem == FindNextSibling(doc, i)
        parent_label == FindParent(doc, i, {"label"}) IN
    IF for_id # Root THEN Some(GetTextStrip(doc, for_id))
    ELSE IF next_elem # Root /\ doc[next_elem].tag = "label"
         THEN Some(GetTextStrip(doc, next_elem))
    ELSE IF parent_label # Root
         THEN Some(ClonedLabelText(doc, parent_label, field_name, value_attr))
    ELSE None

\* the first entry of a sequence of optional results that is not None
FirstSome(rs) ==
    LET hits == SelectSeq(rs, LAMBDA r : r # None)
    IN  IF hits = <<>> THEN None ELSE hits[1]

\* a variant whose last step looks at the first input of that name only
find_label_first_named(doc, el, field_name, field_id, value_attr) ==
    LET label == IF Truthy(field_id) THEN FindLabelFor(doc, el, field_id[1]) ELSE Root
        inputs_with_value ==
            IF value_attr = None THEN <<>>
            ELSE SelectSeq(FindAll(doc, el, {"input"}),
                           LAMBDA j : /\ AttrIs(doc[j].name, field_name)
                                      /\ AttrIs(doc[j].value, value_attr[1]))
        by_value == FirstSome([k \in 1..Len(inputs_with_value) |->
                                  OptionLabelAt(doc, el, inputs_with_value[k],
                                                field_name, value_attr)])
        label_for_name == FindLabelFor(doc, el, field_name)
        with_name == SelectSeq(FindAll(doc, el, {"input"}),
                               LAMBDA j : AttrIs(doc[j].name, field_name))
        target_input == IF with_name # <<>> THEN with_name[1] ELSE Root IN
    IF label # Root THEN Some(GetTextStrip(doc, label))
    ELSE IF by_value # None THEN by_value
    ELSE IF label_for_name # Root THEN Some(GetTextStrip(doc, label_for_name))
    ELSE IF /\ target_input # Root
            /\ Parent(doc, target_input) # Root
            /\ doc[Parent(doc, target_input)].tag = "label"
         THEN Some(GetTextStrip(doc, Parent(doc, target_input)))
    ELSE None

\* _find_label(form_element, field_name, field_id, value_attr)
find_label(doc, el, field_name, field_id, value_attr) ==
    LET label == IF Truthy(field_id) THEN FindLabelFor(doc, el, field_id[1]) ELSE Root
        inputs_with_value ==
            IF value_attr = None THEN <<>>
            ELSE SelectSeq(FindAll(doc, el, {"input"}),
                           LAMBDA j : /\ AttrIs(doc[j].name, field_name)
                                      /\ AttrIs(doc[j].value, value_attr[1]))
        by_value == FirstSome([k \in 1..Len(inputs_with_value) |->
                                  OptionLabelAt(doc, el, inputs_with_value[k],
                                                field_name, value_attr)])
        label_for_name == FindLabelFor(doc, el, field_name)
        with_id == SelectSeq(FindAll(doc, el, {"input"}),
                             LAMBDA j : /\ AttrIs(doc[j].name, field_name)
                                        /\ AttrIsOpt(doc[j].id, field_id))
        with_name == SelectSeq(FindAll(doc, el, {"input"}),
                               LAMBDA j : AttrIs(doc[j].name, field_name))
        target_input == IF with_id # <<>> THEN with_id[1]
                        ELSE IF with_name # <<>> THEN with_name[1] ELSE Root IN
    IF label # Root THEN Some(GetTextStrip(doc, label))
    ELSE IF by_value # None THEN by_value
    ELSE IF label_for_name # Root THEN Some(GetTextStrip(doc, label_for_name))
    ELSE IF /\ target_input # Root
            /\ Parent(doc, target_input) # Root
            /\ doc[Parent(doc, target_input)].tag = "label"
         THEN Some(GetTextStrip(doc, Parent(doc, target_input)))
    ELSE None

-----------------------------------------------------------------------------
(* FormParser._extract_question_text *)

\* class_='<name>': one of the class values, or the whole attribute, is name
ClassIs(n, name) ==
    /\ n.class # None
    /\ \/ \E k \in 1..Len(Tokens(n.class[1])) : Tokens(n.class[1])[k] = name
       \/ n.class[1] = name

\* the first entry of idx whose stripped text is accepted by Ok, as <<text>>
FirstText(doc, idx, Ok(_)) ==
    LET hits == SelectSeq(idx, LAMBDA j : Ok(GetTextStrip(doc, j)))
    IN  IF hits = <<>> THEN None ELSE Some(GetTextStrip(doc, hits[1]))

NonEmpty(t) == t # ""
Between5And500(t) == t # "" /\ 5 < Len(t) /\ Len(t) < 500

\* strategies[0..2]: a descendant div of the given platform class with text
PlatformClassText(doc, el, name) ==
    FirstText(doc, SelectSeq(FindAll(doc, el, {"div"}), LAMBDA j : ClassIs(doc[j], name)),
              NonEmpty)

ExerciseClass(c) == Contains(Lower(c), "exercise")

\* strategies[3]: a descendant div whose class contains "exercise", whose
\* first form is not equal to el, with 5 < len(text) < 500
ExerciseDivText(doc, el) ==
    FirstText(doc,
              SelectSeq(FindAll(doc, el, {"div"}),
                        LAMBDA j : /\ ClassMatches(doc[j], ExerciseClass)
                                   /\ \/ Find(doc, j, {"form"}) = Root
                                      \/ el = Root
                                      \/ Subtree(doc, Find(doc, j, {"form"})) # Subtree(doc, el)),
              Between5And500)

QuestionishClass(c) ==
    \/ Contains(Lower(c), "question")
    \/ Contains(Lower(c), "prompt")
    \/ Contains(Lower(c), "instruction")

\* the nearest ancestor div's first div/p of a question/prompt/instruction
\* class: its text is returned whatever it is
ParentDivQuestionText(doc, el) ==
    LET parent_div == FindParent(doc, el, {"div"})
        question_divs ==
            IF parent_div = Root THEN <<>>
            ELSE SelectSeq(FindAll(doc, parent_div, {"div", "p"}),
                           LAMBDA j : ClassMatches(doc[j], QuestionishClass))
    IN  IF question_divs # <<>> THEN Some(GetTextStrip(doc, question_divs[1])) ELSE None

Headings == {"p", "h1", "h2", "h3", "h4", "h5", "h6", "div"}

RECURSIVE Reverse(_)
Reverse(q) == IF q = <<>> THEN <<>> ELSE Append(Reverse(Tail(q)), Head(q))

Take(q, n) == SubSeq(q, 1, IF Len(q) < n THEN Len(q) ELSE n)

\* Tag.find_all_previous(tags, limit): the elements parsed before el (its
\* ancestors among them), nearest first
FindAllPrevious(doc, el, tags, limit) ==
    IF el = Root THEN <<>>
    ELSE Take(Reverse(InOrder({j \in 1..(el - 1) : doc[j].tag \in tags})), limit)

\* the first of the five previous p/h1..h6/div with 5 < len(text) < 500
PreviousElementText(doc, el) ==
    FirstText(doc, FindAllPrevious(doc, el, Headings, 5), Between5And500)

\* a legend: its text is returned whatever it is
LegendText(doc, el) ==
    LET legend == Find(doc, el, {"legend"})
    IN  IF legend # Root THEN Some(GetTextStrip(doc, legend)) ELSE None

GroupClass(c) == Contains(Lower(c), "form-group") \/ Contains(Lower(c), "field-group")

\* the first form-group/field-group div that holds a label/h3/h4/p: the text
\* of the first of them is returned whatever it is
FormGroupText(doc, el) ==
    LET form_groups == SelectSeq(FindAll(doc, el, {"div"}),
                                 LAMBDA j : ClassMatches(doc[j], GroupClass))
        with_labels == SelectSeq(form_groups,
                                 LAMBDA g : FindAll(doc, g, {"label", "h3", "h4", "p"}) # <<>>)
    IN  IF with_labels # <<>>
        THEN Some(GetTextStrip(doc, FindAll(doc, with_labels[1], {"label", "h3", "h4", "p"})[1]))
        ELSE None

\* Tag.children of p (of the BeautifulSoup object when p is Root)
Children(doc, p) ==
    InOrder({j \in 1..Len(doc) : Parent(doc, j) = p})

\* the first non-blank string among the children of el's parent, unless the
\* parent is body or html
ParentStringText(doc, el) ==
    IF el = Root THEN None
    ELSE LET p == Parent(doc, el)
             strings == SelectSeq(Children(doc, p),
                                  LAMBDA j : doc[j].tag = "#text" /\ Strip(doc[j].text) # "")
         IN  IF (p = Root \/ doc[p].tag \notin {"body", "html"}) /\ strings # <<>>
             THEN Some(Strip(doc[strings[1]].text))
             ELSE None

\* form_element.get('title') or form_element.get('aria-label')
TitleText(doc, el) ==
    IF el = Root THEN None
    ELSE IF Truthy(doc[el].title) THEN doc[el].title
    ELSE IF Truthy(doc[el].aria_label) THEN doc[el].aria_label
    ELSE None

\* class_=lambda c: not c or 'question' in str(c).lower()
NoClassOrQuestion(n) ==
    \/ n.class = None
    \/ \E k \in 1..Len(Tokens(n.class[1])) : Contains(Lower(Tokens(n.class[1])[k]), "question")
    \/ n.class[1] = ""
    \/ Contains(Lower(n.class[1]), "question")

\* form_element.find_parent(['div', 'section'])
SlideContent(doc, el) == FindParent(doc, el, {"div", "section"})

\* the first p/div of slide_content without class (or of a question class)
\* whose text holds a "?" and is shorter than 500
QuestionMarkText(doc, el) ==
    IF SlideContent(doc, el) = Root THEN None
    ELSE FirstText(doc,
                   SelectSeq(FindAll(doc, SlideContent(doc, el), {"p", "div"}),
                             LAMBDA j : NoClassOrQuestion(doc[j])),
                   LAMBDA t : t # "" /\ Contains(t, "?") /\ Len(t) < 500)

german_question_words ==
    {"wer", "was", "wo", "wann", "warum", "wie", "welche", "welcher", "welches",
     "wohin", "woher"}

HasGermanWord(t) == \E w \in german_question_words : Contains(Lower(t), w)

\* the first string of slide_content that holds a German question word and
\* has 10 < len < 500, stripped
GermanWordText(doc, el) ==
    IF SlideContent(doc, el) = Root THEN None
    ELSE LET hits == SelectSeq(FindAll(doc, SlideContent(doc, el), {"#text"}),
                               LAMBDA j : /\ HasGermanWord(doc[j].text)
                                          /\ 10 < Len(doc[j].text)
                                          /\ Len(doc[j].text) < 500)
         IN  IF hits = <<>> THEN None ELSE Some(Strip(doc[hits[1]].text))

RECURSIVE Join(_, _)
\* sep.join(parts)
Join(sep, parts) ==
    IF parts = <<>> THEN ""
    ELSE IF Len(parts) = 1 THEN parts[1]
    ELSE parts[1] \o sep \o Join(sep, Tail(parts))

\* a variant that keeps every label that has text
FieldLabels_unfiltered(doc, el) ==
    LET ls == SelectSeq(FindAll(doc, el, {"label"}), LAMBDA j : GetTextStrip(doc, j) # "")
    IN  [k \in 1..Len(ls) |-> GetTextStrip(doc, ls[k])]

\* the texts longer than 3 of the labels of el
FieldLabels(doc, el) ==
    LET ls == SelectSeq(FindAll(doc, el, {"label"}),
                        LAMBDA j : GetTextStrip(doc, j) # "" /\ Len(GetTextStrip(doc, j)) > 3)
    IN  [k \in 1..Len(ls) |-> GetTextStrip(doc, ls[k])]

\* the first three label texts joined with " / ", " ..." added when there are more
LabelsText(doc, el) ==
    LET field_labels == FieldLabels(doc, el) IN
    IF field_labels = <<>> THEN None
    ELSE Some(Join(" / ", Take(field_labels, 3))
              \o (IF Len(field_labels) > 3 THEN " ..." ELSE ""))

\* "Input: " and the first placeholder longer than 3, tried only when el has
\* no label text
PlaceholderText(doc, el) ==
    LET hits == SelectSeq(FindAll(doc, el, {"input"}),
                          LAMBDA j : Truthy(doc[j].placeholder) /\ Len(doc[j].placeholder[1]) > 3)
    IN  IF FieldLabels(doc, el) = <<>> /\ hits # <<>>
        THEN Some("Input: " \o doc[hits[1]].placeholder[1])
        ELSE None

\* a variant without the last fallback
ExerciseIdText_absent(doc, el) == None

\* "Exercise " and the id of el, when el is a form with an id
ExerciseIdText(doc, el) ==
    IF el # Root /\ doc[el].tag = "form" /\ Truthy(doc[el].id)
    THEN Some("Exercise " \o doc[el].id[1])
    ELSE None

\* what each step of _extract_question_text returns, None when it returns
\* nothing, in the order of the code
QuestionSteps(doc, el) ==
    << PlatformClassText(doc, el, "rs-exercise-prompt"),
       PlatformClassText(doc, el, "rs-exercise-instruction"),
       PlatformClassText(doc, el, "rs-exercise-question"),
       ExerciseDivText(doc, el),
       ParentDivQuestionText(doc, el),
       PreviousElementText(doc, el),
       LegendText(doc, el),
       FormGroupText(doc, el),
       ParentStringText(doc, el),
       TitleText(doc, el),
       QuestionMarkText(doc, el),
       GermanWordText(doc, el),
       LabelsText(doc, el),
       PlaceholderText(doc, el),
       ExerciseIdText(doc, el) >>

\* _extract_question_text(form_element): the first step that returns decides
extract_question_text(doc, el) ==
    LET r == FirstSome(QuestionSteps(doc, el))
    IN  IF r = None THEN "" ELSE r[1]

-----------------------------------------------------------------------------
(* FormParser.parse_form *)

\* FormField(name, field_type, label, options, value, required)
FormField(name, field_type, label, options, value, required) ==
    [name |-> name, field_type |-> field_type, label |-> label, options |-> options,
     value |-> value, required |-> required]

\* FormData(form_id, fields, question_text)
FormData(form_id, fields, question_text) ==
    [form_id |-> form_id, fields |-> fields, question_text |-> question_text]

text_like_types ==
    {"text", "password", "email", "number", "hidden", "submit", "button", "reset",
     "file", "image", "search", "tel", "url", "date", "datetime-local", "month",
     "week", "time", "color"}

\* the 8 hex digits form_html_hash takes from the md5 of the markup, kept
\* abstract: a function of the markup, here a checksum of its nodes (kept
\* below 16^6 so that the arithmetic stays within 32 bits)
HexDigits == "0123456789abcdef"

RECURSIVE Hex(_, _)
Hex(n, width) ==
    IF width = 0 THEN ""
    ELSE Hex(n \div 16, width - 1) \o CharAt(HexDigits, (n % 16) + 1)

RECURSIVE Checksum(_, _)
Checksum(region, k) ==
    IF k > Len(region) THEN 0
    ELSE (k * (Len(region[k].tag) + region[k].d + Len(region[k].text))
          + 16 * Checksum(region, k + 1)) % 16777216

\* form_html_hash(form_html)
form_html_hash(region) == "synthetic-" \o Hex(Checksum(region, 1), 8)

\* option_label or value
LabelOr(option_label, value) == IF Truthy(option_label) THEN option_label[1] ELSE value

\* next((f for f in form_data.fields if f.name == name), None), 0 when None
ExistingField(fields, name) ==
    IF \E k \in 1..Len(fields) : fields[k].name = name
    THEN CHOOSE k \in 1..Len(fields) :
             /\ fields[k].name = name
             /\ \A j \in 1..(k - 1) : fields[j].name # name
    ELSE 0

\* one pass of the loop over the inputs: the fields after input i
InputStep(doc, el, fields, i) ==
    LET input_type == Lower(GetOr(doc[i].type, "text"))
        name == doc[i].name
        value == GetOr(doc[i].value, "")
        option == [value |-> value,
                   label |-> LabelOr(find_label(doc, el, name[1], doc[i].id, Some(value)), value)]
        existing_field == ExistingField(fields, name[1]) IN
    IF ~Truthy(name) THEN fields
    ELSE IF input_type \in text_like_types
    THEN Append(fields,
                FormField(name[1], "TEXT", find_label(doc, el, name[1], doc[i].id, None),
                          <<>>, doc[i].value, doc[i].required # None))
    ELSE IF input_type \in {"radio", "checkbox"}
    THEN IF existing_field # 0
         THEN [fields EXCEPT ![existing_field].options = Append(@, option)]
         ELSE Append(fields,
                     FormField(name[1], IF input_type = "radio" THEN "RADIO" ELSE "CHECKBOX",
                               find_label(doc, el, name[1], doc[i].id, None),
                               <<option>>, None, doc[i].required # None))
    ELSE fields

RECURSIVE InputFields(_, _, _, _)
\* for input_elem in form_element.find_all('input')
InputFields(doc, el, fields, inputs) ==
    IF inputs = <<>> THEN fields
    ELSE InputFields(doc, el, InputStep(doc, el, fields, Head(inputs)), Tail(inputs))

\* for textarea in form_element.find_all('textarea'): the fields added
TextareaFields(doc, el) ==
    LET ts == SelectSeq(FindAll(doc, el, {"textarea"}), LAMBDA j : Truthy(doc[j].name))
    IN  [k \in 1..Len(ts) |->
            FormField(doc[ts[k]].name[1], "TEXTAREA",
                      find_label(doc, el, doc[ts[k]].name[1], doc[ts[k]].id, None),
                      <<>>, Some(Join("", [t \in 1..Len(FindAll(doc, ts[k], {"#text"})) |->
                                              doc[FindAll(doc, ts[k], {"#text"})[t]].text])),
                      doc[ts[k]].required # None)]

\* option.get('value', option.get_text(strip=True))
OptionValue(doc, o) == GetOr(doc[o].value, GetTextStrip(doc, o))

\* a variant that keeps the value of the first option marked selected
SelectedValue_first(doc, options) ==
    LET marked == SelectSeq(options, LAMBDA o : doc[o].selected # None)
    IN  IF marked = <<>> THEN None ELSE Some(OptionValue(doc, marked[1]))

\* the value the loop over the options leaves in field.value: that of the
\* last option marked selected
SelectedValue(doc, options) ==
    LET marked == SelectSeq(options, LAMBDA o : doc[o].selected # None)
    IN  IF marked = <<>> THEN None ELSE Some(OptionValue(doc, marked[Len(marked)]))

\* for select in form_element.find_all('select'): the fields added
SelectFields(doc, el) ==
    LET ss == SelectSeq(FindAll(doc, el, {"select"}), LAMBDA j : Truthy(doc[j].name))
    IN  [k \in 1..Len(ss) |->
            LET options == FindAll(doc, ss[k], {"option"}) IN
            FormField(doc[ss[k]].name[1], "SELECT",
                      find_label(doc, el, doc[ss[k]].name[1], doc[ss[k]].id, None),
                      [o \in 1..Len(options) |->
                          [value |-> OptionValue(doc, options[o]),
                           label |-> GetTextStrip(doc, options[o])]],
                      SelectedValue(doc, options),
                      doc[ss[k]].required # None)]

\* soup.find('form'), or the soup itself when the region holds no form
FormElement(region) == Find(region, Root, {"form"})

\* the fields parse_form collects: the three loops, one after the other
ParsedFields(region, el) ==
    InputFields(region, el, <<>>, FindAll(region, el, {"input"}))
        \o TextareaFields(region, el) \o SelectFields(region, el)

\* the FormData parse_form returns when nothing raises
parse_form(region) ==
    LET form_element == FormElement(region)
        form_id == IF form_element # Root
                   THEN GetOr(region[form_element].id, "")
                   ELSE form_html_hash(region) IN
    FormData(form_id, ParsedFields(region, form_element),
             extract_question_text(region, form_element))

\* the call: any exception inside becomes FormParsingError
ParseFormOutcome(region, fault) ==
    IF fault THEN Raised("FormParsingError") ELSE Returned(parse_form(region))

-----------------------------------------------------------------------------
(* Slide.get_forms *)

\* if not form_data.form_id or form_data.form_id.startswith("synthetic-"):
\*     form_data.form_id = form_id
WithLocatorId(fd, form_id) ==
    IF fd.form_id = "" \/ StartsWith(fd.form_id, "synthetic-")
    THEN [fd EXCEPT !.form_id = form_id]
    ELSE fd

\* a variant that gives up at the first form that fails to parse
RECURSIVE ParseAll_aborting(_, _)
ParseAll_aborting(form_tuples, faults) ==
    IF form_tuples = <<>> THEN <<>>
    ELSE LET r == ParseFormOutcome(Head(form_tuples).region, Head(form_tuples).region \in faults)
         IN  IF r.kind = "raise" THEN <<>>
             ELSE <<WithLocatorId(r.value, Head(form_tuples).id)>>
                      \o ParseAll_aborting(Tail(form_tuples), faults)

RECURSIVE ParseAll(_, _)
\* the loop over form_tuples: the forms appended to self._forms; a form whose
\* parse raises FormParsingError is logged and left out
ParseAll(form_tuples, faults) ==
    IF form_tuples = <<>> THEN <<>>
    ELSE LET r == ParseFormOutcome(Head(form_tuples).region, Head(form_tuples).region \in faults)
         IN  (IF r.kind = "raise" THEN <<>>
              ELSE <<WithLocatorId(r.value, Head(form_tuples).id)>>)
                 \o ParseAll(Tail(form_tuples), faults)

\* what the first get_forms call leaves in self._forms: an exception of
\* extract_forms is caught and logged, and the list stays empty
ComputeForms(doc, fault, faults) ==
    LET form_tuples == ExtractFormsOutcome(doc, fault)
    IN  IF form_tuples.kind = "raise" THEN <<>>
        ELSE ParseAll(form_tuples.value, faults)

-----------------------------------------------------------------------------
(* FormData.to_dict and FormData.from_dict *)

\* a variant that leaves out the fields whose value is falsy
to_dict_truthy(fd) ==
    LET set == {k \in 1..Len(fd.fields) : Truthy(fd.fields[k].value)}
        last(n) == CHOOSE k \in set :
                       /\ fd.fields[k].name = n
                       /\ \A j \in set : fd.fields[j].name = n => j <= k
    IN  [n \in {fd.fields[k].name : k \in set} |-> fd.fields[last(n)].value[1]]

\* {field.name: field.value for field in self.fields if field.value is not None}:
\* a later field of the same name overwrites the key
to_dict(fd) ==
    LET set == {k \in 1..Len(fd.fields) : fd.fields[k].value # None}
        last(n) == CHOOSE k \in set :
                       /\ fd.fields[k].name = n
                       /\ \A j \in set : fd.fields[j].name = n => j <= k
    IN  [n \in {fd.fields[k].name : k \in set} |-> fd.fields[last(n)].value[1]]

\* for field_obj in self.fields: if field_obj.name in data: field_obj.value = data[name]
from_dict(fd, data) ==
    [fd EXCEPT !.fields =
        [k \in 1..Len(fd.fields) |->
            IF fd.fields[k].name \in DOMAIN data
            THEN [fd.fields[k] EXCEPT !.value = Some(data[fd.fields[k].name])]
            ELSE fd.fields[k]]]

-----------------------------------------------------------------------------
(* Specification of the form locator alone *)

\* no client of the API, no Form handler
Offline ==
    /\ platform = NotCalled
    /\ request = NotCalled
    /\ handler = NotCalled
    /\ clock = 0
    /\ progress = NotCalled

Idle ==
    /\ located = NotCalled
    /\ form_data = NotCalled
    /\ question = NotCalled
    /\ forms_cache = None
    /\ get_forms_result = NotCalled
    /\ submission = None
    /\ to_dict_result = NotCalled
    /\ potential_questions = NotCalled
    /\ label_call = NotCalled
    /\ validation = NotCalled
    /\ slides = <<>>
    /\ last_call = NotCalled

InitLocate ==
    /\ Offline
    /\ content_html \in Fragments(LocateAlphabet, MaxLocateNodes)
    /\ soup_fault = FALSE
    /\ parse_fault = {}
    /\ Idle

\* FormParser.extract_forms(content_html)
ExtractForms ==
    /\ located = NotCalled
    /\ located' = ExtractFormsOutcome(content_html, soup_fault)
    /\ UNCHANGED <<content_html, soup_fault, parse_fault, form_data, question,
                   forms_cache, get_forms_result, submission, to_dict_result>>
    /\ UNCHANGED later

NextLocate == ExtractForms

SpecLocate == InitLocate /\ [][NextLocate]_vars

-----------------------------------------------------------------------------
(* Claims about the form locator *)

\* the <form> elements of a fragment, in document order
FormsOf(doc) == FindAll(doc, Root, {"form"})

IdsOf(entries) == [k \in 1..Len(entries) |-> entries[k].id]

\* the <form> elements of a fragment that carry a non-empty id, in document order
IdFormsOf(doc) == SelectSeq(FormsOf(doc), LAMBDA f : doc[f].id # None /\ doc[f].id[1] # "")

\* C1: when the <form> elements that carry a non-empty id have pairwise
\* distinct ids, extract_forms returns exactly one entry per such form, and
\* the ids of the entries are the ids of these forms in document order.
C1_IdFormsLocated ==
    LET doc == content_html
        fs == IdFormsOf(doc) IN
    (/\ located.kind = "return"
     /\ fs # <<>>
     /\ \A k, l \in 1..Len(fs) : doc[fs[k]].id = doc[fs[l]].id => k = l)
    => /\ Len(located.value) = Len(fs)
       /\ IdsOf(located.value) = [k \in 1..Len(fs) |-> doc[fs[k]].id[1]]

\* two forms with distinct ids were located
C1_Witness ==
    /\ located.kind = "return"
    /\ Len(IdFormsOf(content_html)) = 2
    /\ IdsOf(located.value) = <<"b", "a">>

\* the ids the loops synthesize
Numbered(prefix, n) == {prefix \o ToString(k) : k \in 1..n}

\* a div carrying one of the marker classes
IsMarkerDiv(n) == n.tag = "div" /\ ClassMatches(n, FormLikeClass)

HoldsTag(region, tags) == \E j \in 1..Len(region) : region[j].tag \in tags

\* C7: all entries of one extract_forms result come from a single tier: only
\* id-bearing forms if a form has a non-empty id; otherwise only form-{i}
\* entries if a form exists; otherwise only marker-classed div entries
\* (synthetic-form-*) if one qualifies; otherwise only div entries (div-form-*).
C7_SingleTier ==
    located.kind = "return" =>
    LET doc == content_html
        es == located.value
        fs == FormsOf(doc)
        n == Len(doc) IN
    IF \E k \in 1..Len(fs) : Truthy(doc[fs[k]].id)
    THEN \A e \in 1..Len(es) :
            /\ \E k \in 1..Len(fs) : Truthy(doc[fs[k]].id) /\ es[e].id = doc[fs[k]].id[1]
            /\ HoldsTag(es[e].region, {"form"})
    ELSE IF fs # <<>>
    THEN \A e \in 1..Len(es) :
            /\ es[e].id \in Numbered("form-", n)
            /\ HoldsTag(es[e].region, {"form"})
    ELSE IF \E j \in 1..n : IsMarkerDiv(doc[j]) /\ HoldsTag(Subtree(doc, j), Controls)
    THEN \A e \in 1..Len(es) :
            /\ es[e].id \in Numbered("synthetic-form-", n)
            /\ IsMarkerDiv(es[e].region[1])
    ELSE \A e \in 1..Len(es) :
            /\ es[e].id \in Numbered("div-form-", n)
            /\ es[e].region[1].tag = "div"

\* a marker-classed div was located although a plain div holds a control too
C7_Witness ==
    /\ located.kind = "return"
    /\ IdsOf(located.value) = <<"synthetic-form-1">>
    /\ \E j \in 1..Len(content_html) :
          /\ content_html[j].tag = "div"
          /\ content_html[j].class = None
          /\ HoldsTag(Subtree(content_html, j), Controls)

\* C13: extract_forms returns an empty sequence only for fragments without
\* any <input>, <textarea> or <select>; a fragment holding one yields an entry.
C13_EmptyOnlyWithoutControl ==
    (located.kind = "return" /\ located.value = <<>>) =>
        ~HoldsTag(content_html, Controls)

\* C14: in tier 3 and tier 4 the k-th returned region carries the id
\* synthetic-form-k, respectively div-form-k: the ids of a result of n regions
\* are numbered 1..n without gaps.
C14_DenseIndices ==
    (located.kind = "return" /\ FormsOf(content_html) = <<>>) =>
    LET es == located.value IN
    \/ \A k \in 1..Len(es) : es[k].id = "synthetic-form-" \o ToString(k)
    \/ \A k \in 1..Len(es) : es[k].id = "div-form-" \o ToString(k)

-----------------------------------------------------------------------------
(* Specification of the field classifier alone *)

\* regions for the classifier: a form with and without id, text-like inputs
\* (type absent), radios (one typed in upper case), a textarea and an input
\* without name, controls sharing one name and a required one of another name
ParseAlphabet ==
    << Elem("form"), WithId(Elem("form"), "f1"),
       WithRequired(WithName(Elem("input"), "a")),
       WithName(Elem("input"), "x"),
       WithValue(WithName(WithType(Elem("input"), "radio"), "x"), "1"),
       WithValue(WithName(WithType(Elem("input"), "RADIO"), "x"), "2"),
       WithName(Elem("textarea"), "x"),
       WithType(Elem("input"), "checkbox") >>

InitParse ==
    /\ Offline
    /\ content_html \in Fragments(ParseAlphabet, MaxParseNodes)
    /\ soup_fault = FALSE
    /\ parse_fault = {}
    /\ Idle

\* FormParser.parse_form(content_html)
ParseForm ==
    /\ form_data = NotCalled
    /\ form_data' = ParseFormOutcome(content_html, content_html \in parse_fault)
    /\ UNCHANGED <<content_html, soup_fault, parse_fault, located, question,
                   forms_cache, get_forms_result, submission, to_dict_result>>
    /\ UNCHANGED later

NextParse == ParseForm

SpecParse == InitParse /\ [][NextParse]_vars

-----------------------------------------------------------------------------
(* Specification of the question text resolver alone *)

\* regions for the resolver: a form with an id inside or outside a div, a
\* legend, a label, a paragraph, an empty string and two texts
QuestionAlphabet ==
    << WithId(Elem("form"), "f1"), Elem("div"), Elem("legend"), Elem("label"),
       Elem("p"), Text("Name"), Text("Wie alt bist du?"), Text(" ") >>

InitQuestion ==
    /\ Offline
    /\ content_html \in Fragments(QuestionAlphabet, MaxQuestionNodes)
    /\ soup_fault = FALSE
    /\ parse_fault = {}
    /\ Idle

\* FormParser._extract_question_text(form_element), on the element parse_form
\* hands it
ExtractQuestionText ==
    /\ question = NotCalled
    /\ question' = Returned(extract_question_text(content_html, FormElement(content_html)))
    /\ UNCHANGED <<content_html, soup_fault, parse_fault, located, form_data,
                   forms_cache, get_forms_result, submission, to_dict_result>>
    /\ UNCHANGED later

NextQuestion == ExtractQuestionText

SpecQuestion == InitQuestion /\ [][NextQuestion]_vars

-----------------------------------------------------------------------------
(* Specification of the question text resolver on forms that hold labels only *)

\* the number of label texts the resolver joins (field_labels[:3])
JoinedLabels == 3

\* the texts of the labels: of 3, 4 and 7 characters
LabelTexts == {"Age", "Name", "Wohnort"}

\* <form><label>t1</label>...</form>, with an id when with_id, inside a <div>
\* when in_div
LabelForm(texts, with_id, in_div) ==
    LET d0 == IF in_div THEN 1 ELSE 0
        form == [(IF with_id THEN WithId(Elem("form"), "f1") ELSE Elem("form"))
                    EXCEPT !.d = d0]
        labels == [k \in 1..(2 * Len(texts)) |->
                      IF k % 2 = 1 THEN [Elem("label") EXCEPT !.d = d0 + 1]
                      ELSE [Text(texts[k \div 2]) EXCEPT !.d = d0 + 2]]
    IN  (IF in_div THEN <<Elem("div")>> ELSE <<>>) \o <<form>> \o labels

LabelForms ==
    {LabelForm(texts, with_id, in_div) :
        texts \in UNION {[1..k -> LabelTexts] : k \in 1..JoinedLabels},
        with_id \in BOOLEAN, in_div \in BOOLEAN}

InitLabels ==
    /\ Offline
    /\ content_html \in LabelForms
    /\ soup_fault = FALSE
    /\ parse_fault = {}
    /\ Idle

SpecLabels == InitLabels /\ [][NextQuestion]_vars

\* the texts of the labels of a fragment, in document order
LabelTextsOf(doc) ==
    LET ls == FindAll(doc, Root, {"label"})
    IN  [k \in 1..Len(ls) |-> Strip(doc[ls[k] + 1].text)]

RECURSIVE Glued(_)
\* the texts one after the other, nothing between them
Glued(texts) == IF texts = <<>> THEN "" ELSE Head(texts) \o Glued(Tail(texts))

RECURSIVE Slashed(_)
\* the texts one after the other, " / " between them
Slashed(texts) ==
    IF texts = <<>> THEN ""
    ELSE IF Len(texts) = 1 THEN texts[1]
    ELSE texts[1] \o " / " \o Slashed(Tail(texts))

\* C16 as stated: for a form whose only text is k <= 3 labels, question_text
\* is the texts of all k labels joined with " / " in document order, whether
\* or not the form sits inside a parent div.
C16_AllLabelsJoined ==
    question.kind = "return" => question.value = Slashed(LabelTextsOf(content_html))

\* C16 amended: outside a div, question_text is the texts of the labels
\* longer than 3 characters joined with " / " in document order, and when
\* there is none "Exercise {id}" for a form with an id, "" otherwise; inside a
\* parent div whose text (the label texts one after the other) is longer than
\* 5 and shorter than 500 characters, question_text is that text.
C16_LongLabelsJoined ==
    question.kind = "return" =>
    LET doc == content_html
        texts == LabelTextsOf(doc)
        long == SelectSeq(texts, LAMBDA t : Len(t) > 3)
        form == doc[FormElement(doc)] IN
    question.value =
        IF doc[1].tag = "div" /\ Len(Glued(texts)) > 5 /\ Len(Glued(texts)) < 500
        THEN Glued(texts)
        ELSE IF long # <<>> THEN Slashed(long)
        ELSE IF form.id # None THEN "Exercise " \o form.id[1]
        ELSE ""

\* the labels "Name" and "Age" of a form outside any div were resolved
C16_Witness ==
    /\ question = Returned("Name")
    /\ content_html = LabelForm(<<"Name", "Age">>, FALSE, FALSE)

-----------------------------------------------------------------------------
(* Specification of a FormData filled from a submission mapping *)

DictFieldSet ==
    {FormField(n, "TEXT", None, <<>>, v, FALSE) :
        n \in {"a", "b"}, v \in {None, Some(""), Some("old")}}

DictForms(most) ==
    {FormData("f1", fs, "") : fs \in UNION {[1..n -> DictFieldSet] : n \in 0..most}}

Submissions == UNION {[S -> {"", "new"}] : S \in SUBSET {"a", "b", "c"}}

InitDict ==
    /\ Offline
    /\ content_html = <<>>
    /\ soup_fault = FALSE
    /\ parse_fault = {}
    /\ located = NotCalled
    /\ form_data \in {Returned(fd) : fd \in DictForms(MaxFields)}
    /\ question = NotCalled
    /\ forms_cache = None
    /\ get_forms_result = NotCalled
    /\ submission = None
    /\ to_dict_result = NotCalled
    /\ potential_questions = NotCalled
    /\ label_call = NotCalled
    /\ validation = NotCalled
    /\ slides = <<>>
    /\ last_call = NotCalled

\* form_data.from_dict(data)
FromDict(data) ==
    /\ form_data' = Returned(from_dict(form_data.value, data))
    /\ submission' = Some(data)
    /\ to_dict_result' = NotCalled
    /\ UNCHANGED <<content_html, soup_fault, parse_fault, located, question,
                   forms_cache, get_forms_result>>
    /\ UNCHANGED later

\* form_data.to_dict()
ToDict ==
    /\ to_dict_result' = Returned(to_dict(form_data.value))
    /\ UNCHANGED <<content_html, soup_fault, parse_fault, located, form_data, question,
                   forms_cache, get_forms_result, submission>>
    /\ UNCHANGED later

NextDict == (\E data \in Submissions : FromDict(data)) \/ ToDict

SpecDict == InitDict /\ [][NextDict]_vars

-----------------------------------------------------------------------------
(* Specification of a slide *)

\* slides: forms with and without id, inside or outside a div, and a control
SlideAlphabet ==
    << Elem("div"), WithId(Elem("form"), "a"), WithId(Elem("form"), "b"),
       Elem("form"), WithName(Elem("input"), "x") >>

\* the regions extract_forms hands to parse_form for a slide
RegionsOf(doc) == {extract_forms(doc)[k].region : k \in 1..Len(extract_forms(doc))}

\* Slide.__init__: nothing is cached.  The content is either markup or a value
\* of the API (a number, say) on which BeautifulSoup raises inside
\* extract_forms: no tree is built from it
Init ==
    /\ Offline
    /\ \/ /\ soup_fault = FALSE
          /\ content_html \in Fragments(SlideAlphabet, MaxSlideNodes)
       \/ /\ soup_fault = TRUE
          /\ content_html = <<>>
    /\ parse_fault = {}
    /\ Idle

\* Slide.get_forms()
GetForms ==
    /\ forms_cache' = IF forms_cache = None
                      THEN Some(ComputeForms(content_html, soup_fault, parse_fault))
                      ELSE forms_cache
    /\ get_forms_result' = Returned(forms_cache'[1])
    /\ UNCHANGED <<content_html, soup_fault, parse_fault, located, form_data, question,
                   submission, to_dict_result>>
    /\ UNCHANGED later

Next == GetForms

Spec == Init /\ [][Next]_vars

-----------------------------------------------------------------------------
(* Specification of a slide some of whose forms fail to parse *)

\* Slide.__init__ with markup of which some regions make the tree library
\* raise inside parse_form
InitFaults ==
    /\ Offline
    /\ soup_fault = FALSE
    /\ content_html \in Fragments(SlideAlphabet, MaxFaultNodes)
    /\ parse_fault \in SUBSET RegionsOf(content_html)
    /\ Idle

SpecFaults == InitFaults /\ [][Next]_vars

-----------------------------------------------------------------------------
(* Claims about the field classifier *)

FieldNames(fd) == {fd.fields[k].name : k \in 1..Len(fd.fields)}

\* C2: in every FormData parse_form returns, no two fields have the same name.
C2_UniqueFieldNames ==
    form_data.kind = "return" =>
    \A j, k \in 1..Len(form_data.value.fields) :
        form_data.value.fields[j].name = form_data.value.fields[k].name => j = k

\* the radio/checkbox inputs named n of the element parse_form works on
RadiosNamed(doc, n) ==
    SelectSeq(FindAll(doc, FormElement(doc), {"input"}),
              LAMBDA j : /\ doc[j].name = Some(n)
                         /\ Lower(GetOr(doc[j].type, "text")) \in {"radio", "checkbox"})

\* C6: for every set of radio/checkbox inputs sharing one name, parse_form
\* emits exactly one field of that name, whose options are one per such input
\* in document order.
C6_OneFieldPerGroup ==
    form_data.kind = "return" =>
    LET doc == content_html
        fields == form_data.value.fields IN
    \A n \in {"x"} :
        RadiosNamed(doc, n) # <<>> =>
            /\ Cardinality({k \in 1..Len(fields) : fields[k].name = n}) = 1
            /\ \A k \in 1..Len(fields) :
                  fields[k].name = n =>
                      [o \in 1..Len(fields[k].options) |-> fields[k].options[o].value]
                          = [r \in 1..Len(RadiosNamed(doc, n)) |->
                                GetOr(doc[RadiosNamed(doc, n)[r]].value, "")]

\* the named controls of the given tags below the element parse_form works on
NamedControls(doc, tags) ==
    SelectSeq(FindAll(doc, FormElement(doc), tags), LAMBDA j : Truthy(doc[j].name))

\* the place of the first field of fields that satisfies P, 0 when there is none
FirstFieldAt(fields, P(_)) ==
    IF \E k \in 1..Len(fields) : P(fields[k])
    THEN CHOOSE k \in 1..Len(fields) :
             P(fields[k]) /\ \A j \in 1..(k - 1) : ~P(fields[j])
    ELSE 0

\* C12: the fields appear in the order in which their first control appears in
\* the markup, across input, textarea and select alike: the field of a textarea
\* that precedes every named input precedes the fields of the inputs.
C12_MarkupOrder ==
    form_data.kind = "return" =>
    LET doc == content_html
        fields == form_data.value.fields
        areas == NamedControls(doc, {"textarea"})
        inputs == NamedControls(doc, {"input"}) IN
    (areas # <<>> /\ inputs # <<>> /\ areas[1] < inputs[1]) =>
        FirstFieldAt(fields, LAMBDA f : f.field_type = "TEXTAREA")
            < FirstFieldAt(fields, LAMBDA f : f.field_type # "TEXTAREA")

\* a region that is a <form> with an id holding named inputs only: no label,
\* legend, placeholder, title, aria-label or text
BareIdForm(doc) ==
    /\ Len(doc) >= 2
    /\ doc[1].tag = "form" /\ Truthy(doc[1].id)
    /\ doc[1].title = None /\ doc[1].aria_label = None
    /\ \A j \in 2..Len(doc) :
          /\ doc[j].tag = "input" /\ doc[j].d = 1
          /\ Truthy(doc[j].name) /\ doc[j].placeholder = None

\* <form id="f1"><input name="a" required></form>
RequiredInputForm ==
    << WithId(Elem("form"), "f1"),
       [WithRequired(WithName(Elem("input"), "a")) EXCEPT !.d = 1] >>

\* C15 as stated: for a form with an id whose only content is named inputs,
\* parse_form yields the empty question_text.
C15_EmptyQuestionText ==
    (form_data.kind = "return" /\ BareIdForm(content_html)) =>
        form_data.value.question_text = ""

\* C15 amended: for such a form parse_form yields question_text "Exercise "
\* followed by the id of the form, and for <form id="f1"><input name="a"
\* required></form> a single required TEXT field "a" without label.
C15_ExerciseQuestionText ==
    (form_data.kind = "return" /\ BareIdForm(content_html)) =>
        /\ form_data.value.question_text = "Exercise " \o content_html[1].id[1]
        /\ content_html = RequiredInputForm =>
               form_data.value.fields = <<FormField("a", "TEXT", None, <<>>, None, TRUE)>>

\* <form id="f1"><input name="a" required></form> was parsed
C15_Witness ==
    /\ form_data.kind = "return"
    /\ content_html = RequiredInputForm

-----------------------------------------------------------------------------
(* Claims about the question text resolver *)

\* the text of the first step, in the order of the cascade, whose text is not
\* empty; "" when there is none
FirstNonEmptyStepText(doc, el) ==
    LET hits == SelectSeq(QuestionSteps(doc, el), LAMBDA r : r # None /\ r[1] # "")
    IN  IF hits = <<>> THEN "" ELSE hits[1][1]

\* C3: _extract_question_text returns the text of the first strategy whose
\* match is non-empty; a strategy whose matched element has empty text does
\* not end the cascade, and "" is returned only when no strategy yields text.
C3_FirstNonEmptyWins ==
    question.kind = "return" =>
    question.value = FirstNonEmptyStepText(content_html, FormElement(content_html))

\* whether one of the steps before the last fallback yields a text
EarlierStepYieldsText(doc, el) ==
    \E k \in 1..(Len(QuestionSteps(doc, el)) - 1) :
        /\ QuestionSteps(doc, el)[k] # None
        /\ QuestionSteps(doc, el)[k][1] # ""

\* C17: for a region that is a <form> with a non-empty id, when none of the
\* strategies before the last produces a text, _extract_question_text returns
\* "Exercise {id}" with that id.
C17_ExerciseFallback ==
    LET doc == content_html
        el == FormElement(doc) IN
    (/\ question.kind = "return"
     /\ el # Root /\ Truthy(doc[el].id)
     /\ ~EarlierStepYieldsText(doc, el))
    => question.value = "Exercise " \o doc[el].id[1]

-----------------------------------------------------------------------------
(* Claims about FormData.from_dict and FormData.to_dict *)

\* C8: after from_dict(mapping), to_dict() yields the mapping's value for every
\* key that is both a field name and a key of the mapping.
C8_RoundTrip ==
    (to_dict_result.kind = "return" /\ submission # None) =>
    \A k \in DOMAIN submission[1] \cap FieldNames(form_data.value) :
        /\ k \in DOMAIN to_dict_result.value
        /\ to_dict_result.value[k] = submission[1][k]

\* a mapping that sets "" on a field held twice was applied and read back
C8_Witness ==
    /\ to_dict_result.kind = "return"
    /\ submission # None
    /\ "a" \in DOMAIN submission[1]
    /\ submission[1]["a"] = ""
    /\ Len(form_data.value.fields) = 2
    /\ FieldNames(form_data.value) = {"a"}
    /\ "b" \in DOMAIN submission[1]

-----------------------------------------------------------------------------
(* Claims about Slide.get_forms *)

\* the located entries whose region parses
Parseable(es, faults) == SelectSeq(es, LAMBDA e : e.region \notin faults)

\* C4: get_forms returns one FormData per located entry that parses, in locator
\* order, and each form_id is the id the locator supplied for the entry.
C4_LocatorIdKept ==
    (get_forms_result.kind = "return" /\ ~soup_fault) =>
    LET ok == Parseable(extract_forms(content_html), parse_fault) IN
    /\ Len(get_forms_result.value) = Len(ok)
    /\ \A k \in 1..Len(ok) : get_forms_result.value[k].form_id = ok[k].id

\* the <form> elements tier 1 or tier 2 locates, in the order of their entries
LocatedForms(doc) ==
    LET with_id == SelectSeq(FormsOf(doc), LAMBDA f : Truthy(doc[f].id))
    IN  IF with_id # <<>> THEN with_id ELSE FormsOf(doc)

\* C5: the fields of the FormData of a <form> located by tier 1 or tier 2 are
\* built only from the controls inside that same <form>, also when the region
\* is a parent div holding several forms.
C5_FieldsFromOwnForm ==
    (get_forms_result.kind = "return" /\ ~soup_fault /\ parse_fault = {}
        /\ FormsOf(content_html) # <<>>) =>
    LET doc == content_html
        fs == LocatedForms(doc)
        forms == get_forms_result.value IN
    /\ Len(forms) = Len(fs)
    /\ \A k \in 1..Len(fs) :
          \A f \in 1..Len(forms[k].fields) :
              \E j \in Descendants(doc, fs[k]) :
                  /\ doc[j].tag \in Controls
                  /\ doc[j].name = Some(forms[k].fields[f].name)

\* C9: a located form whose parse fails is skipped, and every other located
\* form, before and after it, is parsed and returned in locator order.
C9_FailedFormSkipped ==
    (get_forms_result.kind = "return" /\ ~soup_fault) =>
    LET ok == Parseable(extract_forms(content_html), parse_fault) IN
    get_forms_result.value =
        [k \in 1..Len(ok) |-> WithLocatorId(parse_form(ok[k].region), ok[k].id)]

\* of three located forms the second failed to parse and the other two were returned
C9_Witness ==
    /\ get_forms_result.kind = "return"
    /\ ~soup_fault
    /\ Len(extract_forms(content_html)) = 3
    /\ extract_forms(content_html)[1].region \notin parse_fault
    /\ extract_forms(content_html)[2].region \in parse_fault
    /\ extract_forms(content_html)[3].region \notin parse_fault
    /\ Len(get_forms_result.value) = 2

\* C10: when extract_forms raises FormParsingError, get_forms raises a parsing
\* failure and does not report the slide as having no forms.
C10_LocateFailurePropagates ==
    (get_forms_result # NotCalled /\ soup_fault) =>
        /\ get_forms_result.kind = "raise"
        /\ get_forms_result # Returned(<<>>)

-----------------------------------------------------------------------------
(* Slide.extract_text and Slide.find_potential_questions *)

RECURSIVE JoinLines(_)
\* "\n".join(parts)
JoinLines(parts) ==
    IF parts = <<>> THEN ""
    ELSE IF Len(parts) = 1 THEN parts[1]
    ELSE parts[1] \o "\n" \o JoinLines(Tail(parts))

\* soup.get_text(separator='\n', strip=True): the stripped strings that are
\* not empty, one per line
extract_text(doc) ==
    LET strings == SelectSeq(FindAll(doc, Root, {"#text"}),
                             LAMBDA j : Strip(doc[j].text) # "")
    IN  JoinLines([k \in 1..Len(strings) |-> Strip(doc[strings[k]].text)])

RECURSIVE Split(_, _)
\* s.split(c) for a separator c of one character
Split(s, c) ==
    IF \E i \in 1..Len(s) : CharAt(s, i) = c
    THEN LET i == CHOOSE i \in 1..Len(s) :
                      CharAt(s, i) = c /\ \A j \in 1..(i - 1) : CharAt(s, j) # c
         IN  <<SubSeq(s, 1, i - 1)>> \o Split(SubSeq(s, i + 1, Len(s)), c)
    ELSE <<s>>

\* the segments of one string that end with '?', stripped, those longer than
\* 10 characters
QuestionSegments(text) ==
    LET parts == Split(text, "?")
        questions == [i \in 1..(Len(parts) - 1) |-> Strip(parts[i] \o "?")]
    IN  SelectSeq(questions, LAMBDA q : Len(q) > 10)

RECURSIVE AllQuestionSegments(_, _)
\* first loop: the segments of every string, each appended as it is found
AllQuestionSegments(doc, strings) ==
    IF strings = <<>> THEN <<>>
    ELSE QuestionSegments(doc[Head(strings)].text)
             \o AllQuestionSegments(doc, Tail(strings))

RECURSIVE AppendNew(_, _)
\* each candidate appended unless the list holds it already
AppendNew(found, candidates) ==
    IF candidates = <<>> THEN found
    ELSE AppendNew(IF \E k \in 1..Len(found) : found[k] = Head(candidates)
                   THEN found ELSE Append(found, Head(candidates)),
                   Tail(candidates))

\* second loop: the text of every p, h1..h6 with 10 < len < 500
ElementCandidates(doc) ==
    LET elems == SelectSeq(FindAll(doc, Root, Headings \ {"div"}),
                           LAMBDA j : /\ 10 < Len(GetTextStrip(doc, j))
                                      /\ Len(GetTextStrip(doc, j)) < 500)
    IN  [k \in 1..Len(elems) |-> GetTextStrip(doc, elems[k])]

\* third loop: every string that holds a German question word and has
\* 10 < len < 500, stripped
GermanCandidates(doc) ==
    LET strings == SelectSeq(FindAll(doc, Root, {"#text"}),
                             LAMBDA j : /\ HasGermanWord(doc[j].text)
                                        /\ 10 < Len(doc[j].text)
                                        /\ Len(doc[j].text) < 500)
    IN  [k \in 1..Len(strings) |-> Strip(doc[strings[k]].text)]

\* the list find_potential_questions builds on its first call
find_potential_questions(doc) ==
    AppendNew(AppendNew(AllQuestionSegments(doc, FindAll(doc, Root, {"#text"})),
                        ElementCandidates(doc)),
              GermanCandidates(doc))

-----------------------------------------------------------------------------
(* Specification of the question miner of a slide alone *)

\* longest fragment (number of nodes) handed to find_potential_questions
MaxMinerNodes == 3

\* slides for the miner: a paragraph, a heading, a div, questions (one string
\* holding the same question twice), a sentence without question and a blank
MinerAlphabet ==
    << Elem("p"), Elem("h1"), Elem("div"),
       Text("Wie alt bist du?"), Text("Was ist das? Was ist das?"),
       Text(" Ich bin Anna. "), Text(" ") >>

InitMiner ==
    /\ Offline
    /\ content_html \in Fragments(MinerAlphabet, MaxMinerNodes)
    /\ soup_fault = FALSE
    /\ parse_fault = {}
    /\ Idle

\* Slide.find_potential_questions() on a slide nothing was asked of yet
FindPotentialQuestions ==
    /\ potential_questions = NotCalled
    /\ potential_questions' = Returned(find_potential_questions(content_html))
    /\ UNCHANGED <<content_html, soup_fault, parse_fault, located, form_data, question,
                   forms_cache, get_forms_result, submission, to_dict_result,
                   label_call, validation, slides, last_call>>
    /\ UNCHANGED remote

NextMiner == FindPotentialQuestions

SpecMiner == InitMiner /\ [][NextMiner]_vars

\* C11: the list find_potential_questions returns never holds the same string
\* twice, whichever heuristic produced the candidates.
C11_NoDuplicate ==
    potential_questions.kind = "return" =>
    \A j, k \in 1..Len(potential_questions.value) :
        potential_questions.value[j] = potential_questions.value[k] => j = k

-----------------------------------------------------------------------------
(* The caching accessors of Slide *)

\* most runs of one extraction on one instance that are counted
MaxRuns == 2

\* Slide.__init__: the content and the four empty caches.  forms_runs,
\* text_runs and questions_runs count how often the body of the
\* "if self._... is None" branch of get_forms, extract_text and
\* find_potential_questions was run on the instance
NewSlide(doc) ==
    [content_html |-> doc,
     _forms |-> None, _form_ids |-> None,
     _extracted_text |-> None, _potential_questions |-> None,
     forms_runs |-> 0, text_runs |-> 0, questions_runs |-> 0]

\* what a method leaves of the instance, and what it returns
Outcome(self, result) == [self |-> self, result |-> result]

\* <form id="a"><input name="x"></form> and <p>Wie alt bist du?</p>
SlideContents ==
    LET form == <<WithId(Elem("form"), "a"), [WithName(Elem("input"), "x") EXCEPT !.d = 1]>>
        para == <<Elem("p"), [Text("Wie alt bist du?") EXCEPT !.d = 1]>>
    IN  {form, para}

\* self._forms = forms, at the end of the "if self._forms is None" branch
WithForms(self, forms) ==
    Outcome([self EXCEPT !._forms = Some(forms), !.forms_runs = @ + 1], forms)

\* a variant that does not look at the cache
Slide_get_forms_uncached(self) ==
    WithForms(self, ComputeForms(self.content_html, FALSE, {}))

\* Slide.get_forms
Slide_get_forms(self) ==
    IF self._forms = None
    THEN WithForms(self, ComputeForms(self.content_html, FALSE, {}))
    ELSE Outcome(self, self._forms[1])

\* [form.form_id for form in forms]
FormIds(forms) == [k \in 1..Len(forms) |-> forms[k].form_id]

\* self._form_ids = the ids of what get_forms returned
WithFormIds(got) ==
    Outcome([got.self EXCEPT !._form_ids = Some(FormIds(got.result))], FormIds(got.result))

\* Slide.get_form_ids
Slide_get_form_ids(self) ==
    IF self._form_ids = None
    THEN WithFormIds(Slide_get_forms(self))
    ELSE Outcome(self, self._form_ids[1])

\* the first form of what get_forms returned that has the id, None without one
FirstWithId(got, form_id) ==
    Outcome(got.self,
            IF \E k \in 1..Len(got.result) : got.result[k].form_id = form_id
            THEN Some(got.result[CHOOSE k \in 1..Len(got.result) :
                                     /\ got.result[k].form_id = form_id
                                     /\ \A j \in 1..(k - 1) : got.result[j].form_id # form_id])
            ELSE None)

\* Slide.get_form_by_id
Slide_get_form_by_id(self, form_id) == FirstWithId(Slide_get_forms(self), form_id)

\* self._extracted_text = text
WithText(self, text) ==
    Outcome([self EXCEPT !._extracted_text = Some(text), !.text_runs = @ + 1], text)

\* Slide.extract_text
Slide_extract_text(self) ==
    IF self._extracted_text = None
    THEN WithText(self, extract_text(self.content_html))
    ELSE Outcome(self, self._extracted_text[1])

\* self._potential_questions = found
WithQuestions(self, found) ==
    Outcome([self EXCEPT !._potential_questions = Some(found), !.questions_runs = @ + 1],
            found)

\* Slide.find_potential_questions
Slide_find_potential_questions(self) ==
    IF self._potential_questions = None
    THEN WithQuestions(self, find_potential_questions(self.content_html))
    ELSE Outcome(self, self._potential_questions[1])

\* the form_info entry of one form in the analysis
FormInfo(form_obj) ==
    [form_id |-> form_obj.form_id,
     question |-> form_obj.question_text,
     fields_count |-> Len(form_obj.fields),
     fields |-> [k \in 1..Len(form_obj.fields) |->
                    [name |-> form_obj.fields[k].name,
                     type |-> form_obj.fields[k].field_type,
                     label |-> form_obj.fields[k].label,
                     required |-> form_obj.fields[k].required,
                     options_count |-> Len(form_obj.fields[k].options)]]]

\* the analysis built from what the three accessors returned (the metadata of
\* the slide and the length of the markup string are left out)
Analysis(forms, text, questions) ==
    Outcome(questions.self,
            [forms_count |-> Len(forms.result),
             forms |-> [k \in 1..Len(forms.result) |-> FormInfo(forms.result[k])],
             potential_questions |-> questions.result,
             extracted_text |-> IF Len(text.result) > 1000
                                THEN SubSeq(text.result, 1, 1000) \o "..."
                                ELSE text.result])

-----------------------------------------------------------------------------
(* Specification of two Slide instances and their accessors *)

Instances == {"s1", "s2"}

InitSlides ==
    /\ Offline
    /\ content_html = <<>>
    /\ soup_fault = FALSE
    /\ parse_fault = {}
    /\ located = NotCalled
    /\ form_data = NotCalled
    /\ question = NotCalled
    /\ forms_cache = None
    /\ get_forms_result = NotCalled
    /\ submission = None
    /\ to_dict_result = NotCalled
    /\ potential_questions = NotCalled
    /\ label_call = NotCalled
    /\ validation = NotCalled
    /\ slides \in [Instances -> {NewSlide(doc) : doc \in SlideContents}]
    /\ last_call = NotCalled

\* a call of an accessor on the instance s: what it leaves of s, and its result
Call(s, op, arg, outcome) ==
    /\ slides[s].forms_runs < MaxRuns
    /\ slides[s].text_runs < MaxRuns
    /\ slides[s].questions_runs < MaxRuns
    /\ \E done \in {outcome} :
          /\ slides' = [slides EXCEPT ![s] = done.self]
          /\ last_call' = [slide |-> s, op |-> op, arg |-> arg, result |-> done.result]
    /\ UNCHANGED <<content_html, soup_fault, parse_fault, located, form_data, question,
                   forms_cache, get_forms_result, submission, to_dict_result,
                   potential_questions, label_call, validation>>
    /\ UNCHANGED remote

CallGetForms(s) == Call(s, "get_forms", None, Slide_get_forms(slides[s]))

CallGetFormIds(s) == Call(s, "get_form_ids", None, Slide_get_form_ids(slides[s]))

CallGetFormById(s, form_id) ==
    Call(s, "get_form_by_id", Some(form_id), Slide_get_form_by_id(slides[s], form_id))

CallExtractText(s) == Call(s, "extract_text", None, Slide_extract_text(slides[s]))

CallFindPotentialQuestions(s) ==
    Call(s, "find_potential_questions", None, Slide_find_potential_questions(slides[s]))

\* Slide.get_slide_analysis: get_forms, then extract_text, then
\* find_potential_questions, each on what the one before left of the instance
CallGetSlideAnalysis(s) ==
    \E forms \in {Slide_get_forms(slides[s])} :
        \E text \in {Slide_extract_text(forms.self)} :
            \E questions \in {Slide_find_potential_questions(text.self)} :
                Call(s, "get_slide_analysis", None, Analysis(forms, text, questions))

NextSlides ==
    \E s \in Instances :
        \/ CallGetForms(s)
        \/ CallGetFormIds(s)
        \/ \E form_id \in {"a", "zz"} : CallGetFormById(s, form_id)
        \/ CallExtractText(s)
        \/ CallFindPotentialQuestions(s)
        \/ CallGetSlideAnalysis(s)

SpecSlides == InitSlides /\ [][NextSlides]_vars

\* no extraction ran twice on an instance, and what an instance has cached was
\* computed from its own content
EachExtractedOnce ==
    \A s \in Instances :
        LET self == slides[s] IN
        /\ self.forms_runs <= 1 /\ self.text_runs <= 1 /\ self.questions_runs <= 1
        /\ self._forms # None => self._forms[1] = ComputeForms(self.content_html, FALSE, {})
        /\ self._extracted_text # None =>
               self._extracted_text[1] = extract_text(self.content_html)
        /\ self._potential_questions # None =>
               self._potential_questions[1] = find_potential_questions(self.content_html)

\* a call on an instance that has a result cached leaves the cache as it is,
\* runs nothing again and, for the three caching accessors, returns the cache
CachedResultReturned ==
    \A s \in Instances :
        /\ slides[s]._forms # None =>
              /\ slides'[s]._forms = slides[s]._forms
              /\ slides'[s].forms_runs = slides[s].forms_runs
              /\ (last_call'.slide = s /\ last_call'.op = "get_forms")
                     => last_call'.result = slides[s]._forms[1]
        /\ slides[s]._extracted_text # None =>
              /\ slides'[s]._extracted_text = slides[s]._extracted_text
              /\ slides'[s].text_runs = slides[s].text_runs
              /\ (last_call'.slide = s /\ last_call'.op = "extract_text")
                     => last_call'.result = slides[s]._extracted_text[1]
        /\ slides[s]._potential_questions # None =>
              /\ slides'[s]._potential_questions = slides[s]._potential_questions
              /\ slides'[s].questions_runs = slides[s].questions_runs
              /\ (last_call'.slide = s /\ last_call'.op = "find_potential_questions")
                     => last_call'.result = slides[s]._potential_questions[1]

-----------------------------------------------------------------------------
(* Specification of FormParser._find_label *)

MaxLabelNodes == 3

\* <label>, <label for="i1">, <label for="x">, <input name="x" id="i1" value="1">,
\* <input name="x" id="i2">, <input name="x" value="1">, and two strings
LabelAlphabet ==
    <<Elem("label"),
      WithFor(Elem("label"), "i1"),
      WithFor(Elem("label"), "x"),
      WithValue(WithId(WithName(Elem("input"), "x"), "i1"), "1"),
      WithId(WithName(Elem("input"), "x"), "i2"),
      WithValue(WithName(Elem("input"), "x"), "1"),
      Text("A"),
      Text("B")>>

InitFindLabel ==
    /\ Offline
    /\ content_html \in Fragments(LabelAlphabet, MaxLabelNodes)
    /\ soup_fault = FALSE
    /\ parse_fault = {}
    /\ Idle

\* FormParser._find_label(form_element, "x", field_id, value_attr), the form
\* element being the whole fragment
FindLabel ==
    /\ label_call = NotCalled
    /\ \E field_id \in {None, Some("i1"), Some("i2")}, value_attr \in {None, Some("1")} :
          label_call' = [field_name |-> "x", field_id |-> field_id, value_attr |-> value_attr,
                         result |-> find_label(content_html, Root, "x", field_id, value_attr)]
    /\ UNCHANGED <<content_html, soup_fault, parse_fault, located, form_data, question,
                   forms_cache, get_forms_result, submission, to_dict_result,
                   potential_questions, validation, slides, last_call>>
    /\ UNCHANGED remote

NextFindLabel == FindLabel

SpecFindLabel == InitFindLabel /\ [][NextFindLabel]_vars

\* the first node of a set in document order, Root for the empty set
FirstOf(S) == IF S = {} THEN Root ELSE CHOOSE i \in S : \A j \in S : i <= j

\* the labels of the fragment whose for attribute is v
LabelsFor(doc, v) == {j \in 1..Len(doc) : doc[j].tag = "label" /\ doc[j].for = Some(v)}

\* the inputs of the fragment with that name
InputsNamed(doc, field_name) ==
    {j \in 1..Len(doc) : doc[j].tag = "input" /\ doc[j].name = Some(field_name)}

\* the text of a label: its strings, stripped, one after the other
LabelText(doc, j) ==
    ConcatText(doc, InOrder({k \in (j + 1)..End(doc, j) : doc[k].tag = "#text"}))

\* the element that immediately follows i among the children of its parent
FollowingElement(doc, i) ==
    FirstOf({j \in (i + 1)..Len(doc) :
                /\ doc[j].tag # "#text"
                /\ doc[j].d = doc[i].d
                /\ \A k \in (i + 1)..j : doc[k].d >= doc[i].d})

\* the nearest label that wraps i, Root without one
WrappingLabel(doc, i) ==
    IF \E j \in 1..(i - 1) : doc[j].tag = "label" /\ End(doc, j) >= i
    THEN CHOOSE j \in 1..(i - 1) :
             /\ doc[j].tag = "label" /\ End(doc, j) >= i
             /\ \A k \in (j + 1)..(i - 1) : ~(doc[k].tag = "label" /\ End(doc, k) >= i)
    ELSE Root

\* step 2 for one input: the label for its id, else the label that follows
\* it, else the label that wraps it; Root when it has none of them
LabelOfOption(doc, i) ==
    IF doc[i].id # None /\ LabelsFor(doc, doc[i].id[1]) # {}
    THEN FirstOf(LabelsFor(doc, doc[i].id[1]))
    ELSE IF FollowingElement(doc, i) # Root /\ doc[FollowingElement(doc, i)].tag = "label"
    THEN FollowingElement(doc, i)
    ELSE WrappingLabel(doc, i)

\* the inputs with that name and value that step 2 finds a label for
LabelledOptions(doc, field_name, value) ==
    {i \in InputsNamed(doc, field_name) : doc[i].value = Some(value) /\ LabelOfOption(doc, i) # Root}

\* the four steps in their order, target being the input step 4 looks at
StatedLabel(doc, field_name, field_id, value_attr, target) ==
    IF field_id # None /\ LabelsFor(doc, field_id[1]) # {}
    THEN Some(LabelText(doc, FirstOf(LabelsFor(doc, field_id[1]))))
    ELSE IF value_attr # None /\ LabelledOptions(doc, field_name, value_attr[1]) # {}
    THEN Some(LabelText(doc, LabelOfOption(doc,
                  FirstOf(LabelledOptions(doc, field_name, value_attr[1])))))
    ELSE IF LabelsFor(doc, field_name) # {}
    THEN Some(LabelText(doc, FirstOf(LabelsFor(doc, field_name))))
    ELSE IF target # Root /\ doc[target].d > 0 /\ doc[Parent(doc, target)].tag = "label"
    THEN Some(LabelText(doc, Parent(doc, target)))
    ELSE None

\* the inputs with that name and that id, those without an id when no id is given
InputsOfField(doc, field_name, field_id) ==
    {i \in InputsNamed(doc, field_name) : doc[i].id = field_id}

-----------------------------------------------------------------------------
(* Form.validate_form_data *)

\* field.label or field.name
LabelOrName(field) == LabelOr(field.label, field.name)

\* [option['value'] for option in field.options]
valid_option_values(field) == [k \in 1..Len(field.options) |-> field.options[k].value]

\* x in a list
InList(x, list) == \E k \in 1..Len(list) : list[k] = x

\* [v.strip() for v in submitted_value.split(',')]
submitted_values_list(submitted_value) ==
    [k \in 1..Len(Split(submitted_value, ",")) |-> Strip(Split(submitted_value, ",")[k])]

RECURSIVE CheckboxErrors(_, _)
\* the errors of the loop over submitted_values_list
CheckboxErrors(field, vals) ==
    IF vals = <<>> THEN <<>>
    ELSE (IF InList(Head(vals), valid_option_values(field)) THEN <<>>
          ELSE <<"Invalid value '" \o Head(vals) \o "' for checkbox field '"
                 \o LabelOrName(field) \o "'. Valid options: "
                 \o Join(", ", valid_option_values(field)) \o ".">>)
         \o CheckboxErrors(field, Tail(vals))

\* the errors one pass of the loop over form_structure.fields appends
FieldErrors(field, form_data_dict) ==
    (IF field.required /\ (field.name \notin DOMAIN form_data_dict
                           \/ form_data_dict[field.name] = "")
     THEN <<"Field '" \o LabelOrName(field) \o "' is required.">>
     ELSE <<>>)
    \o
    (IF field.name \in DOMAIN form_data_dict /\ field.options # <<>>
     THEN IF field.field_type \in {"SELECT", "RADIO"}
          THEN IF InList(form_data_dict[field.name], valid_option_values(field)) THEN <<>>
               ELSE <<"Invalid value '" \o form_data_dict[field.name] \o "' for field '"
                      \o LabelOrName(field) \o "'. Valid options: "
                      \o Join(", ", valid_option_values(field)) \o ".">>
          ELSE IF field.field_type = "CHECKBOX"
          THEN CheckboxErrors(field, submitted_values_list(form_data_dict[field.name]))
          ELSE <<>>
     ELSE <<>>)

RECURSIVE AllFieldErrors(_, _)
\* for field in form_structure.fields
AllFieldErrors(fields, form_data_dict) ==
    IF fields = <<>> THEN <<>>
    ELSE FieldErrors(Head(fields), form_data_dict)
             \o AllFieldErrors(Tail(fields), form_data_dict)

\* Form.validate_form_data(form_data_dict), form_structure being what
\* self.get_form_data() returns: the FormData in a one-tuple, or None
validate_form_data(form_id, form_structure, form_data_dict) ==
    IF form_structure = None
    THEN <<"Could not retrieve form structure for form " \o form_id \o " to validate.">>
    ELSE AllFieldErrors(form_structure[1].fields, form_data_dict)

-----------------------------------------------------------------------------
(* Specification of the validation of a submission *)

MaxControls == 2

\* the controls of the forms, each the children of the form element:
\* <input name="t" required>, a select of two options, a select without option,
\* two radio buttons of one group, the first one required, two checkboxes of
\* one group
FieldControls ==
    {<<WithRequired(WithName(Elem("input"), "t"))>>,
     <<WithName(Elem("select"), "s"),
       WithValue(Elem("option"), "a"), WithValue(Elem("option"), "b")>>,
     <<WithName(Elem("select"), "s")>>,
     <<WithRequired(WithValue(WithType(WithName(Elem("input"), "r"), "radio"), "a")),
       WithValue(WithType(WithName(Elem("input"), "r"), "radio"), "b")>>,
     <<WithValue(WithType(WithName(Elem("input"), "c"), "checkbox"), "a"),
       WithValue(WithType(WithName(Elem("input"), "c"), "checkbox"), "b")>>}

\* the nodes of a control as children of the form: an option one level deeper
Placed(control) ==
    [k \in 1..Len(control) |->
        [control[k] EXCEPT !.d = IF control[k].tag = "option" THEN 2 ELSE 1]]

RECURSIVE Flatten(_)
Flatten(parts) == IF parts = <<>> THEN <<>> ELSE Head(parts) \o Flatten(Tail(parts))

\* <form id="f1"> with a sequence of controls
ControlForm(controls) ==
    <<WithId(Elem("form"), "f1")>> \o Flatten([k \in 1..Len(controls) |-> Placed(controls[k])])

\* the forms of at most that many controls, no control twice
ControlForms(most) ==
    {ControlForm(cs) : cs \in {c \in UNION {[1..n -> FieldControls] : n \in 0..most} :
                                  \A i, j \in 1..Len(c) : i # j => c[i] # c[j]}}

\* the mappings submitted: some of the field names, each with a value
Validated == UNION {[S -> {"", "a", "a, b", "zz,a", "zz"}] : S \in SUBSET {"t", "s", "r", "c"}}

\* the form was parsed, or its structure could not be retrieved (form_data None)
InitValidate ==
    /\ Offline
    /\ content_html \in ControlForms(MaxControls)
    /\ soup_fault = FALSE
    /\ parse_fault = {}
    /\ located = NotCalled
    /\ form_data \in {Returned(Some(parse_form(content_html))), Returned(None)}
    /\ question = NotCalled
    /\ forms_cache = None
    /\ get_forms_result = NotCalled
    /\ submission = None
    /\ to_dict_result = NotCalled
    /\ potential_questions = NotCalled
    /\ label_call = NotCalled
    /\ validation = NotCalled
    /\ slides = <<>>
    /\ last_call = NotCalled

\* form.validate_form_data(data)
ValidateFormData(data) ==
    /\ validation = NotCalled
    /\ submission' = Some(data)
    /\ validation' = Returned(validate_form_data("f1", form_data.value, data))
    /\ UNCHANGED <<content_html, soup_fault, parse_fault, located, form_data, question,
                   forms_cache, get_forms_result, to_dict_result,
                   potential_questions, label_call, slides, last_call>>
    /\ UNCHANGED remote

NextValidate == \E data \in Validated : ValidateFormData(data)

SpecValidate == InitValidate /\ [][NextValidate]_vars

\* the required fields that are absent from the mapping or empty in it
MissingRequired(fields, data) ==
    {k \in 1..Len(fields) :
        fields[k].required /\ (fields[k].name \notin DOMAIN data \/ data[fields[k].name] = "")}

\* the option values of a field
OptionValues(field) == {field.options[k].value : k \in 1..Len(field.options)}

\* the Select and Radio fields whose submitted value is none of their option values
BadChoices(fields, data) ==
    {k \in 1..Len(fields) :
        /\ fields[k].field_type \in {"SELECT", "RADIO"}
        /\ fields[k].name \in DOMAIN data
        /\ data[fields[k].name] \notin OptionValues(fields[k])}

\* the components of the submitted Checkbox values, as <<field, place>>, that
\* are, surrounding blanks apart, none of the option values of their field
BadComponents(fields, data) ==
    {c \in (1..Len(fields)) \X (1..5) :
        /\ fields[c[1]].field_type = "CHECKBOX"
        /\ fields[c[1]].name \in DOMAIN data
        /\ c[2] <= Len(Split(data[fields[c[1]].name], ","))
        /\ Strip(Split(data[fields[c[1]].name], ",")[c[2]]) \notin OptionValues(fields[c[1]])}

\* C19: validate_form_data returns an empty list exactly when every required
\* field is in the mapping with a non-empty value, every value submitted for
\* a Select or Radio field is one of its option values and every
\* comma-separated component of a value submitted for a Checkbox field is one
\* of its option values; each violation adds one error.
C19_ErrorsAreViolations ==
    (validation # NotCalled /\ form_data.value # None) =>
        /\ validation.value = <<>> <=>
              /\ MissingRequired(form_data.value[1].fields, submission[1]) = {}
              /\ BadChoices(form_data.value[1].fields, submission[1]) = {}
              /\ BadComponents(form_data.value[1].fields, submission[1]) = {}
        /\ Len(validation.value) =
              Cardinality(MissingRequired(form_data.value[1].fields, submission[1]))
              + Cardinality(BadChoices(form_data.value[1].fields, submission[1]))
              + Cardinality(BadComponents(form_data.value[1].fields, submission[1]))

-----------------------------------------------------------------------------
(* Specification of parse_form on a group of options, each followed by its label *)

MaxOptions == 3

\* <input type=.. name="g" [value=..]> without id
OptionInput(input_type, value) ==
    IF value = None THEN WithType(WithName(Elem("input"), "g"), input_type)
    ELSE WithValue(WithType(WithName(Elem("input"), "g"), input_type), value[1])

\* <form id="f1"> holding, for each <<value, text>> of choices, the input
\* followed by <label>text</label>
OptionForm(input_type, choices) ==
    <<WithId(Elem("form"), "f1")>>
    \o Flatten([k \in 1..Len(choices) |->
                   <<[OptionInput(input_type, choices[k][1]) EXCEPT !.d = 1],
                     [Elem("label") EXCEPT !.d = 1],
                     [Text(choices[k][2]) EXCEPT !.d = 2]>>])

\* the groups of at most that many options
OptionForms(most) ==
    {OptionForm(t, cs) :
        t \in {"radio", "checkbox"},
        cs \in UNION {[1..n -> {None, Some("1"), Some("2")} \X {"A", "B", "Ja"}] : n \in 0..most}}

InitOptions ==
    /\ Offline
    /\ content_html \in OptionForms(MaxOptions)
    /\ soup_fault = FALSE
    /\ parse_fault = {}
    /\ Idle

SpecOptions == InitOptions /\ [][NextParse]_vars

\* the inputs of the group, in document order
GroupInputs(doc) == InOrder({j \in 1..Len(doc) : doc[j].tag = "input"})

\* C25: for a group of radio buttons or checkboxes without id, each followed
\* by a sibling label, the i-th option of the field has the value of the
\* i-th input and the text of the label that follows the i-th input.
C25_OwnLabel ==
    (form_data.kind = "return" /\ GroupInputs(content_html) # <<>>) =>
        /\ Len(form_data.value.fields) = 1
        /\ Len(form_data.value.fields[1].options) = Len(GroupInputs(content_html))
        /\ \A i \in 1..Len(GroupInputs(content_html)) :
              /\ form_data.value.fields[1].options[i].value
                    = GetOr(content_html[GroupInputs(content_html)[i]].value, "")
              /\ form_data.value.fields[1].options[i].label
                    = content_html[GroupInputs(content_html)[i] + 2].text

-----------------------------------------------------------------------------
(* Specification of parse_form on inputs of every type *)

MaxInputs == 2

\* <input [type=..] [name=..]>
TypedInput(input_type, name) ==
    [Elem("input") EXCEPT !.type = input_type, !.name = name, !.d = 1]

\* the inputs: without type, of a text-like type, radio, checkbox, and of a
\* type that is none of them; without name, with an empty name, named a or b
TypedInputs ==
    {TypedInput(t, n) :
        t \in {None, Some("hidden"), Some("radio"), Some("Checkbox"), Some("range")},
        n \in {None, Some(""), Some("a"), Some("b")}}

\* <form id="f1"> holding at most that many inputs
InputForms(most) ==
    {<<WithId(Elem("form"), "f1")>> \o inputs :
        inputs \in UNION {[1..n -> TypedInputs] : n \in 0..most}}

InitInputs ==
    /\ Offline
    /\ content_html \in InputForms(MaxInputs)
    /\ soup_fault = FALSE
    /\ parse_fault = {}
    /\ Idle

SpecInputs == InitInputs /\ [][NextParse]_vars

RECURSIVE Contributions(_, _)
\* what the inputs named name have contributed to the fields: the Text fields
\* of that name and the options of the fields of that name
Contributions(fields, name) ==
    IF fields = <<>> THEN 0
    ELSE (IF Head(fields).name # name THEN 0
          ELSE (IF Head(fields).field_type = "TEXT" THEN 1 ELSE 0) + Len(Head(fields).options))
         + Contributions(Tail(fields), name)

\* C26: every input with a non-empty name, whatever its type, contributes a
\* Text field or an option of a Radio/Checkbox field, and the inputs without
\* a name contribute nothing.
C26_NamedInputsKept ==
    form_data.kind = "return" =>
        /\ \A k \in 1..Len(form_data.value.fields) : form_data.value.fields[k].name \in {"a", "b"}
        /\ \A name \in {"a", "b"} :
              Contributions(form_data.value.fields, name)
                  = Cardinality({j \in 1..Len(content_html) :
                                    /\ content_html[j].tag = "input"
                                    /\ content_html[j].name = Some(name)})

-----------------------------------------------------------------------------
(* Specification of parse_form on a select *)

MaxSelectOptions == 2

\* <option [value=..] [selected]>text</option>, the text left out when empty
SelectOption(value, selected, text) ==
    <<[Elem("option") EXCEPT !.value = value, !.d = 2,
                             !.selected = IF selected THEN Some("") ELSE None]>>
    \o (IF text = "" THEN <<>> ELSE <<[Text(text) EXCEPT !.d = 3]>>)

\* <form id="f1"><select [name=..]> with these options
SelectForm(name, options) ==
    <<WithId(Elem("form"), "f1"), [Elem("select") EXCEPT !.name = name, !.d = 1]>>
    \o Flatten(options)

\* the selects of at most that many options
SelectForms(most) ==
    {SelectForm(name, options) :
        name \in {None, Some("lang")},
        options \in UNION {[1..n -> {SelectOption(v, m, t) :
                                        v \in {None, Some(""), Some("de")},
                                        m \in BOOLEAN,
                                        t \in {"", "Deutsch", " English "}}]
                           : n \in 0..most}}

InitSelects ==
    /\ Offline
    /\ content_html \in SelectForms(MaxSelectOptions)
    /\ soup_fault = FALSE
    /\ parse_fault = {}
    /\ Idle

SpecSelects == InitSelects /\ [][NextParse]_vars

\* the <option> elements of the fragment, in document order
OptionElements(doc) == InOrder({j \in 1..Len(doc) : doc[j].tag = "option"})

\* the text of an option: the string below it, stripped, "" without one
OptionText(doc, o) ==
    IF o < Len(doc) /\ doc[o + 1].tag = "#text" THEN Strip(doc[o + 1].text) ELSE ""

\* the value of an option: its value attribute, its text when it has none
StatedOptionValue(doc, o) ==
    IF doc[o].value # None THEN doc[o].value[1] ELSE OptionText(doc, o)

\* the options marked selected
MarkedOptions(doc) == {o \in 1..Len(doc) : doc[o].tag = "option" /\ doc[o].selected # None}

\* C27: for a <select> with a name, parse_form emits a Select field whose
\* options are one {value, label} pair per <option> in document order, the
\* value being the value attribute or, without one, the text; the value of the
\* field is that of the option marked selected (of the last one when several
\* are) and is absent when none is marked.  A select without name gives no field.
C27_SelectOptions ==
    form_data.kind = "return" =>
        IF content_html[2].name = None THEN form_data.value.fields = <<>>
        ELSE /\ Len(form_data.value.fields) = 1
             /\ form_data.value.fields[1].name = content_html[2].name[1]
             /\ form_data.value.fields[1].field_type = "SELECT"
             /\ Len(form_data.value.fields[1].options) = Len(OptionElements(content_html))
             /\ \A k \in 1..Len(OptionElements(content_html)) :
                   form_data.value.fields[1].options[k]
                       = [value |-> StatedOptionValue(content_html, OptionElements(content_html)[k]),
                          label |-> OptionText(content_html, OptionElements(content_html)[k])]
             /\ form_data.value.fields[1].value =
                   IF MarkedOptions(content_html) = {} THEN None
                   ELSE Some(StatedOptionValue(content_html,
                                CHOOSE o \in MarkedOptions(content_html) :
                                    \A q \in MarkedOptions(content_html) : q <= o))

\* a select of two options was parsed: the first has no value attribute, the
\* second is marked selected and gives the field its value
C27_Witness ==
    /\ form_data.kind = "return"
    /\ Len(form_data.value.fields) = 1
    /\ Len(form_data.value.fields[1].options) = 2
    /\ content_html[OptionElements(content_html)[1]].value = None
    /\ form_data.value.fields[1].options[1].value = "Deutsch"
    /\ MarkedOptions(content_html) = {OptionElements(content_html)[2]}
    /\ form_data.value.fields[1].value = Some("de")

-----------------------------------------------------------------------------
(* parse_jwt_token and the user id of DDDGermanPlatform *)

\* JSON values: a string, a number, an object (a function on its keys)
Str(v) == [t |-> "str", v |-> v]
Num(n) == [t |-> "int", v |-> n]
Dict(d) == [t |-> "dict", v |-> d]
EmptyDict == Dict(<<>>)

RECURSIVE Replace(_, _, _)
\* s.replace(a, b) for strings of one character
Replace(s, a, b) ==
    IF s = "" THEN ""
    ELSE (IF CharAt(s, 1) = a THEN b ELSE CharAt(s, 1)) \o Replace(SubSeq(s, 2, Len(s)), a, b)

RECURSIVE Repeat(_, _)
\* c * n
Repeat(c, n) == IF n <= 0 THEN "" ELSE c \o Repeat(c, n - 1)

\* the payload segment with its padding restored and in the standard alphabet
PaddedPayload(payload_b64) ==
    Replace(Replace(IF Len(payload_b64) % 4 # 0
                    THEN payload_b64 \o Repeat("=", 4 - (Len(payload_b64) % 4))
                    ELSE payload_b64,
                    "-", "+"),
            "_", "/")

\* json.loads(base64.b64decode(payload_b64).decode('utf-8')) on the segments
\* the tokens of the model carry; on every other segment it raises
DecodedPayloads ==
    [x \in {"eyJzdWIiOiIxMiJ9", "eyJ1c2VySWQiOjcsImVtYWlsIjoiYUBiIn0=",
            "eyJlbWFpbCI6ImFAYiIsImlkIjoieDkifQ==", "eyJzdWIiOiJhYj8+In0=",
            "eyJuYW1lIjoieCJ9", "NQ=="} |->
        CASE x = "eyJzdWIiOiIxMiJ9" -> Dict([sub |-> Str("12")])
          [] x = "eyJ1c2VySWQiOjcsImVtYWlsIjoiYUBiIn0=" -> Dict([userId |-> Num(7), email |-> Str("a@b")])
          [] x = "eyJlbWFpbCI6ImFAYiIsImlkIjoieDkifQ==" -> Dict([email |-> Str("a@b"), id |-> Str("x9")])
          [] x = "eyJzdWIiOiJhYj8+In0=" -> Dict([sub |-> Str("ab?>")])
          [] x = "eyJuYW1lIjoieCJ9" -> Dict([name |-> Str("x")])
          [] x = "NQ==" -> Num(5)]

\* parse_jwt_token(jwt_token): the payload, {} when the token has not three
\* parts or its payload cannot be decoded
parse_jwt_token(jwt_token) ==
    IF Len(Split(jwt_token, ".")) # 3 THEN EmptyDict
    ELSE IF PaddedPayload(Split(jwt_token, ".")[2]) \in DOMAIN DecodedPayloads
    THEN DecodedPayloads[PaddedPayload(Split(jwt_token, ".")[2])]
    ELSE EmptyDict

Digits == "0123456789"

IsDigit(c) == \E k \in 1..Len(Digits) : CharAt(Digits, k) = c

RECURSIVE DigitsValue(_)
\* the number a string of digits denotes
DigitsValue(s) ==
    IF s = "" THEN 0
    ELSE 10 * DigitsValue(SubSeq(s, 1, Len(s) - 1))
         + (CHOOSE k \in 0..9 : CharAt(Digits, k + 1) = CharAt(s, Len(s)))

\* whether int(s) succeeds on a string: digits, a sign and blanks around allowed
IsIntegerString(s) ==
    /\ Strip(s) # ""
    /\ \A k \in 1..Len(Strip(s)) :
          \/ IsDigit(CharAt(Strip(s), k))
          \/ k = 1 /\ CharAt(Strip(s), 1) \in {"-", "+"} /\ Len(Strip(s)) > 1

\* int(s) on such a string
IntegerOfString(s) ==
    IF CharAt(Strip(s), 1) = "-" THEN 0 - DigitsValue(SubSeq(Strip(s), 2, Len(Strip(s))))
    ELSE IF CharAt(Strip(s), 1) = "+" THEN DigitsValue(SubSeq(Strip(s), 2, Len(Strip(s))))
    ELSE DigitsValue(Strip(s))

\* try: int(value) except (ValueError, TypeError): str(value)
IntOrStr(value) ==
    IF value.t = "int" THEN value
    ELSE IF IsIntegerString(value.v) THEN Num(IntegerOfString(value.v))
    ELSE value

user_id_fields == <<"sub", "userId", "user_id", "id", "email">>

\* the first of user_id_fields that is a key of the payload, 0 without one
FirstIdField(payload) ==
    IF \E k \in 1..Len(user_id_fields) : user_id_fields[k] \in DOMAIN payload.v
    THEN CHOOSE k \in 1..Len(user_id_fields) :
             /\ user_id_fields[k] \in DOMAIN payload.v
             /\ \A j \in 1..(k - 1) : user_id_fields[j] \notin DOMAIN payload.v
    ELSE 0

\* DDDGermanPlatform._extract_user_id_from_token: the client it leaves, or
\* the TypeError of `field in payload` on a payload that is a number
extract_user_id_from_token(self) ==
    IF ~Truthy(self.jwt_token) THEN Returned(self)
    ELSE IF parse_jwt_token(self.jwt_token[1]).t # "dict" THEN Raised("TypeError")
    ELSE IF FirstIdField(parse_jwt_token(self.jwt_token[1])) = 0 THEN Returned(self)
    ELSE Returned([self EXCEPT !._user_id =
             Some(IntOrStr(parse_jwt_token(self.jwt_token[1]).v[
                      user_id_fields[FirstIdField(parse_jwt_token(self.jwt_token[1]))]]))])

\* DDDGermanPlatform.__init__(jwt_token)
NewPlatform(jwt_token) ==
    IF extract_user_id_from_token([jwt_token |-> jwt_token, _user_id |-> None]).kind = "return"
    THEN extract_user_id_from_token([jwt_token |-> jwt_token, _user_id |-> None]).value
    ELSE [jwt_token |-> jwt_token, _user_id |-> None]

\* DDDGermanPlatform.set_jwt_token(jwt_token): the client it leaves, whether
\* it returns or raises
set_jwt_token(self, jwt_token) ==
    IF extract_user_id_from_token([self EXCEPT !.jwt_token = Some(jwt_token)]).kind = "return"
    THEN extract_user_id_from_token([self EXCEPT !.jwt_token = Some(jwt_token)]).value
    ELSE [self EXCEPT !.jwt_token = Some(jwt_token)]

\* DDDGermanPlatform.get_user_id
get_user_id(self) == self._user_id

-----------------------------------------------------------------------------
(* Specification of the tokens of a client *)

MaxTokens == 2

\* tokens whose payloads are {"sub":"12"}, {"userId":7,"email":"a@b"},
\* {"email":"a@b","id":"x9"}, {"sub":"ab?>"}, {"name":"x"} and 5, a token of
\* two parts, a token whose payload is no base64 of JSON, and the empty token
JwtTokens ==
    {"h.eyJzdWIiOiIxMiJ9.s", "h.eyJ1c2VySWQiOjcsImVtYWlsIjoiYUBiIn0.s",
     "h.eyJlbWFpbCI6ImFAYiIsImlkIjoieDkifQ.s", "h.eyJzdWIiOiJhYj8-In0.s",
     "h.eyJuYW1lIjoieCJ9.s", "h.NQ.s", "h.eyJzdWIiOiIxMiJ9", "h.x.s", ""}

\* the variables of the parsing engine, which the client leaves alone
engine == <<content_html, soup_fault, parse_fault, located, form_data, question,
            forms_cache, get_forms_result, submission, to_dict_result,
            potential_questions, label_call, validation, slides, last_call>>

\* nothing of the parsing engine is in use
NoEngine ==
    /\ content_html = <<>>
    /\ soup_fault = FALSE
    /\ parse_fault = {}
    /\ Idle

\* DDDGermanPlatform(jwt_token); sets counts the set_jwt_token calls, got is
\* what the last get_user_id call since returned
InitTokens ==
    /\ NoEngine
    /\ \E t \in {None} \cup {Some(x) : x \in JwtTokens} :
          platform = [client |-> NewPlatform(t), sets |-> 0, got |-> NotCalled]
    /\ request = NotCalled
    /\ handler = NotCalled
    /\ clock = 0
    /\ progress = NotCalled

\* client.set_jwt_token(t)
SetJwtToken(t) ==
    /\ platform.sets < MaxTokens
    /\ platform' = [client |-> set_jwt_token(platform.client, t),
                    sets |-> platform.sets + 1, got |-> NotCalled]
    /\ UNCHANGED <<engine, request, handler, clock, progress>>

\* client.get_user_id()
GetUserId ==
    /\ platform.got = NotCalled
    /\ platform' = [platform EXCEPT !.got = Returned(get_user_id(platform.client))]
    /\ UNCHANGED <<engine, request, handler, clock, progress>>

NextTokens == (\E t \in JwtTokens : SetJwtToken(t)) \/ GetUserId

SpecTokens == InitTokens /\ [][NextTokens]_vars

\* the user id a token carries: the value of the first of sub, userId,
\* user_id, id, email in its payload, as int when numeric, else as string;
\* None when it carries none of them or cannot be decoded
CarriedUserId(t) ==
    IF parse_jwt_token(t).t # "dict" THEN None
    ELSE IF \A k \in 1..5 : user_id_fields[k] \notin DOMAIN parse_jwt_token(t).v THEN None
    ELSE Some(IntOrStr(parse_jwt_token(t).v[
                  user_id_fields[CHOOSE k \in 1..5 :
                      /\ user_id_fields[k] \in DOMAIN parse_jwt_token(t).v
                      /\ \A j \in 1..(k - 1) :
                            user_id_fields[j] \notin DOMAIN parse_jwt_token(t).v]]))

\* C24: after set_jwt_token(t), get_user_id() returns the user id carried by
\* t, None when t carries none or cannot be decoded, and never the id of a
\* token set earlier.
C24_IdOfCurrentToken ==
    (platform.sets > 0 /\ platform.got # NotCalled) =>
        platform.got.value = CarriedUserId(platform.client.jwt_token[1])

-----------------------------------------------------------------------------
(* DDDGermanPlatform._make_request *)

\* what self._session.request does: it raises, or it returns a response with
\* a status code and a body
Failure(exc) == [kind |-> "failure", exc |-> exc]
Response(status_code, body) == [kind |-> "response", status_code |-> status_code, body |-> body]

\* the bodies: no content, a JSON object, a JSON array, text that is no JSON
NoContent == [json |-> "none", v |-> <<>>]
JsonObject(d) == [json |-> "object", v |-> d]
JsonArray(items) == [json |-> "array", v |-> items]
PlainText == [json |-> "text", v |-> <<>>]

\* a variant that sends the request whether or not a token is set
request_headers_unchecked(self, authenticated) ==
    Returned([Authorization |-> IF authenticated /\ Truthy(self.jwt_token)
                                THEN Some("Bearer " \o self.jwt_token[1]) ELSE None])

\* the headers of the request: the token check of an authenticated call
request_headers(self, authenticated) ==
    IF authenticated /\ ~Truthy(self.jwt_token) THEN Raised("AuthenticationError")
    ELSE Returned([Authorization |-> IF authenticated
                                     THEN Some("Bearer " \o self.jwt_token[1]) ELSE None])

\* the except clause for HTTPError: the exception raised for a status code and
\* a body; e.response.json() of an array has no get
http_error(status_code, body) ==
    IF body.json = "array" THEN Raised("AttributeError")
    ELSE IF status_code = 400 THEN Raised("BadRequestError")
    ELSE IF status_code = 401 THEN Raised("AuthenticationError")
    ELSE IF status_code = 403 THEN Raised("ForbiddenError")
    ELSE IF status_code = 404 THEN Raised("NotFoundError")
    ELSE IF status_code >= 500 THEN Raised("ServerError")
    ELSE Raised("DDDGermanAPIError")

\* the try block and its except clauses, for what self._session.request did
request_outcome(reply) ==
    IF reply.kind = "failure"
    THEN IF reply.exc \in {"ConnectionError", "Timeout"} THEN Raised("APIConnectionError")
         ELSE Raised("DDDGermanAPIError")
    ELSE IF reply.status_code = 204 \/ reply.body.json = "none" THEN Returned(None)
    ELSE IF reply.status_code >= 400 /\ reply.status_code < 600
    THEN http_error(reply.status_code, reply.body)
    ELSE Returned(Some(reply.body))

-----------------------------------------------------------------------------
(* Specification of the requests of a client *)

MaxRequests == 2

StatusCodes == {200, 204, 301, 400, 401, 403, 404, 418, 500, 503}

\* what the session may do with a request
Replies ==
    {Failure(e) : e \in {"ConnectionError", "Timeout", "RequestException"}}
    \cup {Response(c, b) : c \in StatusCodes,
                           b \in {NoContent, JsonObject([message |-> "m"]),
                                  JsonArray(<<>>), PlainText}}

\* no _make_request call was made yet
NoRequest ==
    [pc |-> "done", authenticated |-> FALSE, sent |-> 0, reply |-> None,
     outcome |-> NotCalled, calls |-> 0]

\* a client without token, with an empty token, or with a token
InitRequests ==
    /\ NoEngine
    /\ \E t \in {None, Some(""), Some("h.eyJzdWIiOiIxMiJ9.s")} :
          platform = [client |-> NewPlatform(t), sets |-> 0, got |-> NotCalled]
    /\ request = NoRequest
    /\ handler = NotCalled
    /\ clock = 0
    /\ progress = NotCalled

\* client._make_request(..., authenticated) up to the try block: the headers
\* are built; without the token an authenticated call ends here
BeginRequest(authenticated) ==
    /\ request.pc = "done"
    /\ request.calls < MaxRequests
    /\ request' =
          [pc |-> IF request_headers(platform.client, authenticated).kind = "raise"
                  THEN "done" ELSE "sending",
           authenticated |-> authenticated,
           sent |-> 0,
           reply |-> None,
           outcome |-> IF request_headers(platform.client, authenticated).kind = "raise"
                       THEN request_headers(platform.client, authenticated)
                       ELSE NotCalled,
           calls |-> request.calls + 1]
    /\ UNCHANGED <<engine, platform, handler, clock, progress>>

\* the try block: self._session.request(...) is issued and answered
SendRequest(reply) ==
    /\ request.pc = "sending"
    /\ request' = [request EXCEPT !.pc = "done", !.sent = @ + 1,
                                  !.reply = Some(reply),
                                  !.outcome = request_outcome(reply)]
    /\ UNCHANGED <<engine, platform, handler, clock, progress>>

NextRequests ==
    \/ \E authenticated \in BOOLEAN : BeginRequest(authenticated)
    \/ \E reply \in Replies : SendRequest(reply)

SpecRequests == InitRequests /\ [][NextRequests]_vars

\* the exception the claim maps an error status to, "" for another status
MappedError(status_code) ==
    CASE status_code = 400 -> "BadRequestError"
      [] status_code = 401 -> "AuthenticationError"
      [] status_code = 403 -> "ForbiddenError"
      [] status_code = 404 -> "NotFoundError"
      [] status_code >= 500 -> "ServerError"
      [] OTHER -> ""

\* C21: for every response received, an error status raises the mapped
\* exception whatever the body (400, 401, 403, 404, any status >= 500), and a
\* value, None included, is returned only for a status that is no error.
C21_ErrorStatusRaises ==
    (request.reply # None /\ request.reply[1].kind = "response") =>
        /\ MappedError(request.reply[1].status_code) # ""
              => request.outcome = Raised(MappedError(request.reply[1].status_code))
        /\ request.outcome.kind = "return" => request.reply[1].status_code < 400

\* an authenticated call on a client without token has raised
\* AuthenticationError and has sent nothing, and no call has sent more than
\* one request
NoTokenNoRequest ==
    request.calls > 0 =>
        /\ request.sent <= 1
        /\ (request.authenticated /\ ~Truthy(platform.client.jwt_token)) =>
              /\ request.pc = "done"
              /\ request.outcome = Raised("AuthenticationError")
              /\ request.sent = 0

\* a request is issued only by a call that has passed the token check and
\* has not issued one yet
SentAfterCheck ==
    (request'.sent > 0 /\ request' # request) =>
        /\ request.pc = "sending" /\ request.sent = 0 /\ request'.sent = 1
        /\ request.authenticated => Truthy(platform.client.jwt_token)

\* C30: an authenticated _make_request call while no token is set raises
\* AuthenticationError before any HTTP request is sent; the request is issued
\* only after the token check passed, and each call issues at most one.
C30_CheckBeforeSend == [](NoTokenNoRequest) /\ [][SentAfterCheck]_vars

\* one authenticated call was refused without a request, on a client whose
\* token is empty, after an earlier call of that client had sent its request
C30_Witness ==
    /\ request.calls = 2
    /\ request.authenticated
    /\ platform.client.jwt_token = Some("")
    /\ request.outcome = Raised("AuthenticationError")
    /\ request.sent = 0

-----------------------------------------------------------------------------
(* The Form handler: get_previous_responses and submit_form_data *)

\* cache_ttl of Form.get_previous_responses
cache_ttl == 60

\* _make_request(..., authenticated) as one call: the token check, then the
\* request answered with reply; issued counts the HTTP requests sent
make_request(self, authenticated, reply) ==
    IF request_headers(self, authenticated).kind = "raise"
    THEN [outcome |-> request_headers(self, authenticated), issued |-> 0]
    ELSE [outcome |-> request_outcome(reply), issued |-> 1]

\* a dict of the responses endpoint: id, formId, slideId, formData may be
\* absent, and the dict may carry a key named platform_client
ResponseDict(id, formId, slideId, formData, platform_client) ==
    [id |-> id, formId |-> formId, slideId |-> slideId, formData |-> formData,
     platform_client |-> platform_client]

\* json.dumps of the dict {"answer": answer}
json_dumps(form_data_dict) == "{\"answer\": \"" \o form_data_dict.answer \o "\"}"

\* UserResponse.__init__: the attributes the handler reads
UserResponse(id, formId, slideId, formData) ==
    [id |-> id, form_id |-> formId, slide_id |-> slideId, form_data_raw |-> formData]

\* UserResponse(self._client, **data): the key platform_client is given twice
NewUserResponse(data) ==
    IF data.platform_client THEN Raised("TypeError")
    ELSE Returned(UserResponse(data.id, data.formId, data.slideId, data.formData))

\* Form.__init__
NewForm(user_id, kapitel_id, thema_id, form_id, slide_id) ==
    [user_id |-> user_id, kapitel_id |-> kapitel_id, thema_id |-> thema_id,
     form_id |-> form_id, slide_id |-> slide_id,
     _previous_responses |-> <<>>, _last_fetch_time |-> None]

\* DDDGermanPlatform._fetch_all_themas_data: the cache of the client is filled
\* by one request on first use; a reply that is no list leaves an empty list
fetch_all_themas_data(client, reply) ==
    IF client.themas # None
    THEN [client |-> client, outcome |-> Returned(client.themas[1]), issued |-> 0]
    ELSE IF make_request(client.client, FALSE, reply).outcome.kind = "raise"
    THEN [client |-> client, outcome |-> make_request(client.client, FALSE, reply).outcome,
          issued |-> 1]
    ELSE IF make_request(client.client, FALSE, reply).outcome.value # None
            /\ make_request(client.client, FALSE, reply).outcome.value[1].json = "array"
    THEN [client |-> [client EXCEPT !.themas =
                         Some(make_request(client.client, FALSE, reply).outcome.value[1].v)],
          outcome |-> Returned(make_request(client.client, FALSE, reply).outcome.value[1].v),
          issued |-> 1]
    ELSE [client |-> [client EXCEPT !.themas = Some(<<>>)],
          outcome |-> Returned(<<>>), issued |-> 1]

\* DDDGermanPlatform.get_theme_by_kapitel_thema on the themes fetched: the
\* first theme of that chapter and number, None without one
get_theme_by_kapitel_thema(themas, kapitel_id, thema_id) ==
    IF \E i \in 1..Len(themas) : themas[i].kapitel = kapitel_id /\ themas[i].thema = thema_id
    THEN Some(themas[CHOOSE i \in 1..Len(themas) :
                  /\ themas[i].kapitel = kapitel_id /\ themas[i].thema = thema_id
                  /\ \A j \in 1..(i - 1) :
                        ~(themas[j].kapitel = kapitel_id /\ themas[j].thema = thema_id)])
    ELSE None

\* the conversion of Theme.get_user_responses: id defaults to -1, the other
\* keys to None
converted_data(response) ==
    [response EXCEPT !.id = IF response.id = None THEN -1 ELSE response.id[1]]

RECURSIVE valid_responses(_)
\* the loop of Theme.get_user_responses: a dict whose UserResponse cannot be
\* built is logged and left out
valid_responses(responses_data) ==
    IF responses_data = <<>> THEN <<>>
    ELSE IF NewUserResponse(converted_data(Head(responses_data))).kind = "raise"
    THEN valid_responses(Tail(responses_data))
    ELSE <<NewUserResponse(converted_data(Head(responses_data))).value>>
         \o valid_responses(Tail(responses_data))

\* Theme.get_user_responses(user_id): one authenticated request; a reply that
\* is no list gives no response
get_user_responses(client, reply) ==
    IF make_request(client.client, TRUE, reply).outcome.kind = "raise"
    THEN make_request(client.client, TRUE, reply)
    ELSE IF make_request(client.client, TRUE, reply).outcome.value # None
            /\ make_request(client.client, TRUE, reply).outcome.value[1].json = "array"
    THEN [outcome |-> Returned(valid_responses(
                          make_request(client.client, TRUE, reply).outcome.value[1].v)),
          issued |-> 1]
    ELSE [outcome |-> Returned(<<>>), issued |-> 1]

RECURSIVE OfForm(_, _)
\* the responses r with r.form_id == self.form_id and r.slide_id == self.slide_id
OfForm(self, responses) ==
    IF responses = <<>> THEN <<>>
    ELSE (IF Head(responses).form_id = Some(self.form_id)
             /\ Head(responses).slide_id = Some(self.slide_id)
          THEN <<Head(responses)>> ELSE <<>>) \o OfForm(self, Tail(responses))

\* whether get_previous_responses fetches: the condition of its if
must_fetch(self, force_refresh, current_time) ==
    \/ force_refresh
    \/ self._previous_responses = <<>>
    \/ self._last_fetch_time = None
    \/ self._last_fetch_time[1] = 0
    \/ current_time - self._last_fetch_time[1] > cache_ttl

\* the try block of get_previous_responses once the themes are there
fetch_responses(self, client, themas, issued, current_time, reply) ==
    IF get_theme_by_kapitel_thema(themas, self.kapitel_id, self.thema_id) = None
    THEN [self |-> self, client |-> client, outcome |-> Returned(<<>>), issued |-> issued]
    ELSE IF get_user_responses(client, reply).outcome.kind = "raise"
    THEN [self |-> self, client |-> client,
          outcome |-> Returned(self._previous_responses),
          issued |-> issued + get_user_responses(client, reply).issued]
    ELSE [self |-> [self EXCEPT
                      !._previous_responses =
                          OfForm(self, get_user_responses(client, reply).outcome.value),
                      !._last_fetch_time = Some(current_time)],
          client |-> client,
          outcome |-> Returned(OfForm(self, get_user_responses(client, reply).outcome.value)),
          issued |-> issued + get_user_responses(client, reply).issued]

\* Form.get_previous_responses(force_refresh) at current_time, the server
\* answering the request for the themes with themas_reply and the one for
\* the responses with reply: the handler and the client it leaves, what it
\* returns, and the number of requests it sent
get_previous_responses(self, client, force_refresh, current_time, themas_reply, reply) ==
    IF ~must_fetch(self, force_refresh, current_time)
    THEN [self |-> self, client |-> client,
          outcome |-> Returned(self._previous_responses), issued |-> 0]
    ELSE IF fetch_all_themas_data(client, themas_reply).outcome.kind = "raise"
    THEN [self |-> self, client |-> client,
          outcome |-> Returned(self._previous_responses),
          issued |-> fetch_all_themas_data(client, themas_reply).issued]
    ELSE fetch_responses(self, fetch_all_themas_data(client, themas_reply).client,
                         fetch_all_themas_data(client, themas_reply).outcome.value,
                         fetch_all_themas_data(client, themas_reply).issued,
                         current_time, reply)

\* response_data after the setdefault calls of submit_form_data
with_defaults(self, response_data, form_data_dict) ==
    ResponseDict(IF response_data.id = None THEN -1 ELSE response_data.id[1],
                 IF response_data.formId = None THEN Some(self.form_id)
                 ELSE response_data.formId,
                 IF response_data.slideId = None THEN Some(self.slide_id)
                 ELSE response_data.slideId,
                 IF response_data.formData = None THEN Some(json_dumps(form_data_dict))
                 ELSE response_data.formData,
                 response_data.platform_client)

\* a variant that appends the response whatever the cache holds
updated_cache_appended(previous_responses, user_response) ==
    Append(previous_responses, user_response)

\* the update of the cache: the first response of the same id is replaced, a
\* response of a new id is appended
updated_cache(previous_responses, user_response) ==
    IF \E i \in 1..Len(previous_responses) : previous_responses[i].id = user_response.id
    THEN [previous_responses EXCEPT
             ![CHOOSE i \in 1..Len(previous_responses) :
                   /\ previous_responses[i].id = user_response.id
                   /\ \A j \in 1..(i - 1) : previous_responses[j].id # user_response.id]
                 = user_response]
    ELSE Append(previous_responses, user_response)

\* the try block of submit_form_data: what it returns or raises, and the
\* handler it leaves
submit_try(self, client, form_data_dict, reply) ==
    IF make_request(client.client, TRUE, reply).outcome.kind = "raise"
    THEN [self |-> self, outcome |-> make_request(client.client, TRUE, reply).outcome,
          issued |-> make_request(client.client, TRUE, reply).issued]
    ELSE IF make_request(client.client, TRUE, reply).outcome.value = None
            \/ make_request(client.client, TRUE, reply).outcome.value[1].json # "object"
    THEN [self |-> self, outcome |-> Raised("FormSubmissionError"), issued |-> 1]
    ELSE IF NewUserResponse(with_defaults(self,
                make_request(client.client, TRUE, reply).outcome.value[1].v,
                form_data_dict)).kind = "raise"
    THEN [self |-> self,
          outcome |-> NewUserResponse(with_defaults(self,
                          make_request(client.client, TRUE, reply).outcome.value[1].v,
                          form_data_dict)),
          issued |-> 1]
    ELSE [self |-> [self EXCEPT !._previous_responses =
                       updated_cache(self._previous_responses,
                           NewUserResponse(with_defaults(self,
                               make_request(client.client, TRUE, reply).outcome.value[1].v,
                               form_data_dict)).value)],
          outcome |-> Returned(NewUserResponse(with_defaults(self,
                          make_request(client.client, TRUE, reply).outcome.value[1].v,
                          form_data_dict)).value),
          issued |-> 1]

\* a variant without the except clause
submit_form_data_uncaught(self, client, form_data_dict, reply) ==
    submit_try(self, client, form_data_dict, reply)

\* Form.submit_form_data(form_data_dict): the try block, and the except
\* clause that raises FormSubmissionError for every exception
submit_form_data(self, client, form_data_dict, reply) ==
    IF submit_try(self, client, form_data_dict, reply).outcome.kind = "raise"
    THEN [submit_try(self, client, form_data_dict, reply)
             EXCEPT !.outcome = Raised("FormSubmissionError")]
    ELSE submit_try(self, client, form_data_dict, reply)

-----------------------------------------------------------------------------
(* Specification of a Form handler and its client *)

\* the last second of the clock
MaxTime == 62

\* the longest list the responses endpoint returns
MaxResponses == 2

\* what the themas endpoint may answer; it is asked by a client that has not
\* fetched the themes yet
ThemasReplies ==
    {Failure("ConnectionError"),
     Response(200, JsonArray(<<[kapitel |-> 1, thema |-> 2], [kapitel |-> 1, thema |-> 1]>>)),
     Response(200, JsonArray(<<[kapitel |-> 2, thema |-> 1]>>))}

\* the dicts of the responses endpoint for a stored response
StoredResponses ==
    {ResponseDict(id, Some("f1"), Some(1), Some("x"), FALSE) : id \in {None, Some(1)}}
    \cup {ResponseDict(Some(1), Some("f2"), Some(1), Some("x"), FALSE),
          ResponseDict(Some(1), Some("f1"), Some(2), Some("x"), FALSE),
          ResponseDict(Some(1), Some("f1"), Some(1), Some("x"), TRUE)}

\* the lists of stored responses, their ids pairwise distinct
ResponseLists(most) ==
    {l \in UNION {[1..n -> StoredResponses] : n \in 0..most} :
         \A i, j \in 1..Len(l) : i # j => l[i].id # l[j].id}

\* what the responses endpoint may answer to a GET
ResponsesReplies(most) ==
    {Failure("Timeout"), Response(500, JsonObject([message |-> "m"])),
     Response(500, NoContent)}
    \cup {Response(200, JsonArray(l)) : l \in ResponseLists(most)}

\* what the responses endpoint may answer to a POST
SubmitReplies ==
    {Failure("ConnectionError"), Failure("Timeout"),
     Response(400, JsonObject([message |-> "m"])), Response(500, NoContent),
     Response(503, JsonArray(<<>>)), Response(200, PlainText),
     Response(200, JsonArray(<<>>)), Response(204, NoContent),
     Response(200, JsonObject(ResponseDict(Some(1), None, None, None, TRUE)))}
    \cup {Response(201, JsonObject(ResponseDict(id, None, None, None, FALSE))) :
              id \in {None, Some(1)}}

\* no method of the handler was called yet
NoCall(self) ==
    [op |-> "none", force_refresh |-> FALSE, at |-> 0, before |-> self,
     issued |-> 0, outcome |-> NotCalled]

\* a client with or without token, and the handler of form f1 on slide 1 of
\* theme 1 of chapter 1
InitForms ==
    /\ NoEngine
    /\ \E t \in {None, Some("h.eyJzdWIiOiIxMiJ9.s")} :
          /\ platform = [client |-> NewPlatform(t), themas |-> None]
          /\ handler = [form |-> NewForm(get_user_id(NewPlatform(t)), 1, 1, "f1", 1),
                        call |-> NoCall(NewForm(get_user_id(NewPlatform(t)), 1, 1, "f1", 1))]
    /\ request = NotCalled
    /\ clock = 1
    /\ progress = NotCalled

\* time passes
Tick(seconds) ==
    /\ clock + seconds <= MaxTime
    /\ clock' = clock + seconds
    /\ UNCHANGED <<engine, platform, request, handler, progress>>

\* client.set_jwt_token(t)
SetToken(t) ==
    /\ platform.client.jwt_token # Some(t)
    /\ platform' = [platform EXCEPT !.client = set_jwt_token(platform.client, t)]
    /\ UNCHANGED <<engine, request, handler, clock, progress>>

\* form.get_previous_responses(force_refresh)
GetPreviousResponses(force_refresh, reply) ==
    /\ \E themas_reply \in (IF platform.themas = None THEN ThemasReplies
                             ELSE {Failure("ConnectionError")}) :
       \E done \in {get_previous_responses(handler.form, platform, force_refresh,
                                           clock, themas_reply, reply)} :
          /\ handler' = [form |-> done.self,
                         call |-> [op |-> "get_previous_responses",
                                   force_refresh |-> force_refresh, at |-> clock,
                                   before |-> handler.form,
                                   issued |-> done.issued, outcome |-> done.outcome]]
          /\ platform' = done.client
    /\ UNCHANGED <<engine, request, clock, progress>>

\* form.submit_form_data(form_data_dict)
SubmitFormData(form_data_dict, reply) ==
    /\ \E done \in {submit_form_data(handler.form, platform, form_data_dict, reply)} :
          handler' = [form |-> done.self,
                      call |-> [op |-> "submit_form_data", force_refresh |-> FALSE,
                                at |-> clock, before |-> handler.form,
                                issued |-> done.issued, outcome |-> done.outcome]]
    /\ UNCHANGED <<engine, platform, request, clock, progress>>

NextForms ==
    \/ \E seconds \in {60, 61} : Tick(seconds)
    \/ \E t \in {"", "h.eyJzdWIiOiIxMiJ9.s"} : SetToken(t)
    \/ \E force_refresh \in BOOLEAN, reply \in ResponsesReplies(MaxResponses) :
          GetPreviousResponses(force_refresh, reply)
    \/ \E reply \in SubmitReplies : SubmitFormData([answer |-> "a"], reply)

SpecForms == InitForms /\ [][NextForms]_vars

\* C22: once get_previous_responses has fetched successfully, a call without
\* force_refresh made within 60 seconds of that fetch returns the cached list
\* and sends no request, whatever the fetched list contained; a call with
\* force_refresh or made more than 60 seconds after the fetch sends a request.
C22_CachedForTtl ==
    (handler.call.op = "get_previous_responses"
     /\ handler.call.before._last_fetch_time # None) =>
        IF ~handler.call.force_refresh
           /\ handler.call.at - handler.call.before._last_fetch_time[1] <= cache_ttl
        THEN /\ handler.call.issued = 0
             /\ handler.call.outcome = Returned(handler.call.before._previous_responses)
        ELSE handler.call.issued >= 1

\* C23: a submit_form_data call that fails raises FormSubmissionError and no
\* other exception, and leaves the handler, its cache of previous responses
\* included, as it was before the call.
C23_FailuresAreSubmissionErrors ==
    (handler.call.op = "submit_form_data" /\ handler.call.outcome.kind = "raise") =>
        /\ handler.call.outcome = Raised("FormSubmissionError")
        /\ handler.form._previous_responses = handler.call.before._previous_responses

\* a submission refused for want of a token, no request sent, by a handler
\* whose cache holds responses
C23_Witness ==
    /\ handler.call.op = "submit_form_data"
    /\ handler.call.outcome.kind = "raise"
    /\ handler.call.issued = 0
    /\ Len(handler.form._previous_responses) = 2

\* the response of that id in the cache before the last call, if any
CachedBefore(id) ==
    {i \in 1..Len(handler.call.before._previous_responses) :
         handler.call.before._previous_responses[i].id = id}

\* C28: the ids of the cached responses are pairwise distinct, and after a
\* successful submit_form_data the cache contains the response returned: in
\* the place of the cached response of the same id, the rest unchanged, or
\* appended when no cached response had that id.
C28_CacheHoldsReturned ==
    /\ \A i, j \in 1..Len(handler.form._previous_responses) :
          i # j => handler.form._previous_responses[i].id
                       # handler.form._previous_responses[j].id
    /\ (handler.call.op = "submit_form_data" /\ handler.call.outcome.kind = "return") =>
          /\ \E i \in 1..Len(handler.form._previous_responses) :
                handler.form._previous_responses[i] = handler.call.outcome.value
          /\ IF CachedBefore(handler.call.outcome.value.id) # {}
             THEN /\ Len(handler.form._previous_responses)
                        = Len(handler.call.before._previous_responses)
                  /\ \A i \in 1..Len(handler.form._previous_responses) :
                        handler.form._previous_responses[i] =
                            IF i \in CachedBefore(handler.call.outcome.value.id)
                            THEN handler.call.outcome.value
                            ELSE handler.call.before._previous_responses[i]
             ELSE handler.form._previous_responses =
                      Append(handler.call.before._previous_responses,
                             handler.call.outcome.value)

\* a submission has replaced the first of two cached responses by a response
\* of the same id and another content
C28_Witness ==
    /\ handler.call.op = "submit_form_data"
    /\ handler.call.outcome.kind = "return"
    /\ Len(handler.call.before._previous_responses) = 2
    /\ handler.call.before._previous_responses[1].id = handler.call.outcome.value.id
    /\ handler.call.before._previous_responses[1] # handler.call.outcome.value
    /\ handler.form._previous_responses[1] = handler.call.outcome.value

-----------------------------------------------------------------------------
(* DDDGermanPlatform.get_user_progress *)

\* an id of the API: a JSON number or a JSON string
NumberId(n) == [number |-> Some(n), text |-> None]
TextId(s) == [number |-> None, text |-> Some(s)]

\* int(value) of such an id
int_of(value) ==
    IF value.text = None THEN Returned(value.number[1])
    ELSE IF IsIntegerString(value.text[1]) THEN Returned(IntegerOfString(value.text[1]))
    ELSE Raised("ValueError")

\* the dicts get_user_progress starts a level with
new_progress(all_chapters) ==
    [total_chapters |-> Len(all_chapters), total_themes |-> 0, total_slides |-> 0,
     total_forms |-> 0, completed_forms |-> 0, chapters |-> <<>>]
new_chapter_prog(chapter_obj) ==
    [id |-> chapter_obj, themes |-> <<>>, total_forms |-> 0, completed_forms |-> 0]
new_theme_prog(theme_obj) ==
    [id |-> theme_obj.thema, slides |-> <<>>, total_forms |-> 0, completed_forms |-> 0]
new_slide_prog(slide_obj) ==
    [id |-> slide_obj.id, forms |-> <<>>, total_forms |-> Len(slide_obj.forms),
     completed_forms |-> 0]

RECURSIVE responded_form_slide_pairs(_)
\* the set of (str(form_id), int(slide_id)) of the responses that carry both;
\* int raises on a slide id that is no number
responded_form_slide_pairs(responses) ==
    IF responses = <<>> THEN Returned({})
    ELSE IF ~(Truthy(Head(responses).form_id) /\ Head(responses).slide_id # None)
    THEN responded_form_slide_pairs(Tail(responses))
    ELSE IF int_of(Head(responses).slide_id[1]).kind = "raise"
    THEN int_of(Head(responses).slide_id[1])
    ELSE IF responded_form_slide_pairs(Tail(responses)).kind = "raise"
    THEN responded_form_slide_pairs(Tail(responses))
    ELSE Returned({[form |-> Head(responses).form_id[1],
                    slide |-> int_of(Head(responses).slide_id[1]).value]}
                  \cup responded_form_slide_pairs(Tail(responses)).value)

\* the four dicts after a form of the slide was found responded or not
form_counted(st, form_id, completed) ==
    IF completed
    THEN [st EXCEPT !.slide_prog.forms = Append(@, [id |-> form_id, completed |-> TRUE]),
                    !.slide_prog.completed_forms = @ + 1,
                    !.theme_prog.completed_forms = @ + 1,
                    !.chapter_prog.completed_forms = @ + 1,
                    !.progress.completed_forms = @ + 1]
    ELSE [st EXCEPT !.slide_prog.forms = Append(@, [id |-> form_id, completed |-> FALSE])]

RECURSIVE form_loop(_, _, _, _)
\* for form_obj in slide_forms: int(slide_obj.id) raises on an id that is no
\* number
form_loop(st, slide_obj, slide_forms, pairs) ==
    IF slide_forms = <<>> THEN [st |-> st, raised |-> FALSE]
    ELSE IF int_of(slide_obj.id).kind = "raise" THEN [st |-> st, raised |-> TRUE]
    ELSE form_loop(form_counted(st, Head(slide_forms),
                       [form |-> Head(slide_forms), slide |-> int_of(slide_obj.id).value]
                           \in pairs),
                   slide_obj, Tail(slide_forms), pairs)

\* the dicts when the loop over the forms of a slide starts: the forms of
\* the slide are added to the totals of the slide, theme, chapter and platform
slide_started(st, slide_obj) ==
    [progress |-> [st.progress EXCEPT !.total_forms = @ + Len(slide_obj.forms)],
     chapter_prog |-> [st.chapter_prog EXCEPT !.total_forms = @ + Len(slide_obj.forms)],
     theme_prog |-> [st.theme_prog EXCEPT !.total_forms = @ + Len(slide_obj.forms)],
     slide_prog |-> new_slide_prog(slide_obj)]

\* theme_prog['slides'].append(slide_prog)
slide_done(done) ==
    [done EXCEPT !.theme_prog.slides = Append(@, done.slide_prog)]

RECURSIVE slide_loop(_, _, _)
\* for slide_obj in all_slides, until a slide raises
slide_loop(st, all_slides, pairs) ==
    IF all_slides = <<>> THEN st
    ELSE IF form_loop(slide_started(st, Head(all_slides)), Head(all_slides),
                      Head(all_slides).forms, pairs).raised
    THEN form_loop(slide_started(st, Head(all_slides)), Head(all_slides),
                   Head(all_slides).forms, pairs).st
    ELSE slide_loop(slide_done(form_loop(slide_started(st, Head(all_slides)),
                                         Head(all_slides), Head(all_slides).forms,
                                         pairs).st),
                    Tail(all_slides), pairs)

\* the try block for a theme; an exception ends it and is logged
theme_tried(st, theme_obj) ==
    IF theme_obj.slides.kind = "raise" THEN st
    ELSE IF theme_obj.responses.kind = "raise"
            \/ responded_form_slide_pairs(theme_obj.responses.value).kind = "raise"
    THEN [st EXCEPT !.progress.total_slides = @ + Len(theme_obj.slides.value)]
    ELSE slide_loop([st EXCEPT !.progress.total_slides = @ + Len(theme_obj.slides.value)],
                    theme_obj.slides.value,
                    responded_form_slide_pairs(theme_obj.responses.value).value)

\* chapter_prog['themes'].append(theme_prog)
theme_done(done) ==
    [done EXCEPT !.chapter_prog.themes = Append(@, done.theme_prog)]

RECURSIVE theme_loop(_, _)
\* for theme_obj in all_themes
theme_loop(st, all_themes) ==
    IF all_themes = <<>> THEN st
    ELSE theme_loop(theme_done(theme_tried(
                        [st EXCEPT !.theme_prog = new_theme_prog(Head(all_themes))],
                        Head(all_themes))),
                    Tail(all_themes))

RECURSIVE get_themes(_, _)
\* Chapter.get_themes: the themes whose kapitel is the chapter
get_themes(chapter_obj, all_themas_data) ==
    IF all_themas_data = <<>> THEN <<>>
    ELSE (IF Head(all_themas_data).kapitel = chapter_obj
          THEN <<Head(all_themas_data)>> ELSE <<>>)
         \o get_themes(chapter_obj, Tail(all_themas_data))

\* progress['chapters'].append(chapter_prog)
chapter_done(done) ==
    [done EXCEPT !.progress.chapters = Append(@, done.chapter_prog)]

RECURSIVE chapter_loop(_, _, _)
\* for chapter_obj in all_chapters
chapter_loop(st, all_chapters, all_themas_data) ==
    IF all_chapters = <<>> THEN st
    ELSE chapter_loop(
             chapter_done(theme_loop(
                 [st EXCEPT !.chapter_prog = new_chapter_prog(Head(all_chapters)),
                            !.progress.total_themes =
                                @ + Len(get_themes(Head(all_chapters), all_themas_data))],
                 get_themes(Head(all_chapters), all_themas_data))),
             Tail(all_chapters), all_themas_data)

\* get_user_progress(user_id) on the chapters and themes of the platform
get_user_progress(all_chapters, all_themas_data) ==
    chapter_loop([progress |-> new_progress(all_chapters),
                  chapter_prog |-> new_chapter_prog(0),
                  theme_prog |-> new_theme_prog([thema |-> 0]),
                  slide_prog |-> new_slide_prog([id |-> NumberId(0), forms |-> <<>>])],
                 all_chapters, all_themas_data).progress

-----------------------------------------------------------------------------
(* Specification of the progress of a user *)

\* the most slides of a theme
MaxSlides == 2

\* a slide as get_user_progress reads it: its id and the ids of its forms
ProgressSlides ==
    {[id |-> id, forms |-> forms] :
         id \in {NumberId(1), TextId("2"), TextId("s3")}, forms \in {<<"f1">>, <<"f1", "f2">>}}
    \cup {[id |-> TextId("s3"), forms |-> <<>>]}

\* what Theme.get_slides gives: it raises, or it returns slides
SlidesOutcomes(most) ==
    {Raised("ServerError")}
    \cup {Returned(l) : l \in UNION {[1..n -> ProgressSlides] : n \in 0..most}}

\* what Theme.get_user_responses gives: it raises, or it returns responses
ResponsesOutcomes ==
    {Raised("APIConnectionError"),
     Returned(<<>>),
     Returned(<<[form_id |-> Some("f1"), slide_id |-> Some(NumberId(1))],
                [form_id |-> None, slide_id |-> Some(TextId("s3"))],
                [form_id |-> Some("f2"), slide_id |-> Some(TextId("2"))]>>),
     Returned(<<[form_id |-> Some("f1"), slide_id |-> Some(TextId("s3"))]>>)}

\* the themes of the platform: those of chapter 1 and one of chapter 2
ProgressThemes(most) ==
    {[kapitel |-> 1, thema |-> 1, slides |-> sl, responses |-> r] :
         sl \in SlidesOutcomes(most), r \in ResponsesOutcomes}
    \cup {[kapitel |-> 2, thema |-> 1,
           slides |-> Returned(<<[id |-> NumberId(1), forms |-> <<"f1">>]>>),
           responses |-> Returned(<<[form_id |-> Some("f1"), slide_id |-> Some(NumberId(1))]>>)]}

\* chapters 1 and 2 with two themes, and no progress computed yet
InitProgress ==
    /\ NoEngine
    /\ platform = NotCalled
    /\ request = NotCalled
    /\ handler = NotCalled
    /\ clock = 0
    /\ \E first \in ProgressThemes(MaxSlides), second \in ProgressThemes(1) :
          progress = [all_chapters |-> <<1, 2>>,
                      all_themas_data |-> <<first, second>>,
                      result |-> NotCalled]

\* client.get_user_progress(user_id)
GetUserProgress ==
    /\ progress.result = NotCalled
    /\ progress' = [progress EXCEPT !.result =
                       Returned(get_user_progress(progress.all_chapters,
                                                  progress.all_themas_data))]
    /\ UNCHANGED <<engine, platform, request, handler, clock>>

NextProgress == GetUserProgress

SpecProgress == InitProgress /\ [][NextProgress]_vars

RECURSIVE TotalOver(_)
\* the sum of total_forms over a list of dicts
TotalOver(children) ==
    IF children = <<>> THEN 0 ELSE Head(children).total_forms + TotalOver(Tail(children))

RECURSIVE CompletedOver(_)
\* the sum of completed_forms over a list of dicts
CompletedOver(children) ==
    IF children = <<>> THEN 0
    ELSE Head(children).completed_forms + CompletedOver(Tail(children))

\* the counters of a dict are the sums over its children, completed <= total
SumsOf(prog, children) ==
    /\ prog.total_forms = TotalOver(children)
    /\ prog.completed_forms = CompletedOver(children)
    /\ prog.completed_forms <= prog.total_forms

\* C29: in the result of get_user_progress, total_forms and completed_forms
\* of the platform, of each chapter and of each theme are the sums of the
\* counters of the chapters, themes and slides listed under them, with
\* completed_forms <= total_forms at every level, also for a theme whose
\* processing failed midway.
C29_TotalsAreSums ==
    progress.result # NotCalled =>
        /\ SumsOf(progress.result.value, progress.result.value.chapters)
        /\ \A c \in 1..Len(progress.result.value.chapters) :
              /\ SumsOf(progress.result.value.chapters[c],
                        progress.result.value.chapters[c].themes)
              /\ \A t \in 1..Len(progress.result.value.chapters[c].themes) :
                    /\ SumsOf(progress.result.value.chapters[c].themes[t],
                              progress.result.value.chapters[c].themes[t].slides)
                    /\ \A k \in 1..Len(progress.result.value.chapters[c].themes[t].slides) :
                          progress.result.value.chapters[c].themes[t].slides[k].completed_forms
                              <= progress.result.value.chapters[c].themes[t].slides[k].total_forms

=============================================================================
